---- MODULE Spec2Model ----
(***************************************************************************)
(* A model of gojuice: the scope package (scope.S, Binding) and the        *)
(* tree-walking evaluator of package machine (M, Runtime, Evaluator).      *)
(*                                                                         *)
(* The evaluator is recursive Go code.  Here every Go activation that is   *)
(* waiting for a nested Eval/Call to return is a frame on `stack`, and     *)
(* `ctl` says what happens next: a call that is about to start ("eval",    *)
(* "bind", "call", "invoke") or a call that has just returned ("ret").     *)
(***************************************************************************)
EXTENDS Integers, Sequences, FiniteSets, TLC

\* ------------------------------------------------------------------ bounds
\* Number of statements the host puts in the top-level block of one Run.
MaxStmts == 3
\* Number of Runtime.Run calls the host makes.
MaxRuns == 1
\* Number of Runtimes the host spawns from the Engine.
MaxRuntimes == 1
\* Number of Runtimes of a host that runs no program.
MaxHostRuntimes == 2

\* ------------------------------------------------------------------ values
\* A Go interface{} value: t is its dynamic type, n its number (or, for the
\* reference types, the identity of its storage in `heap`), s its string.
\* A float64 is kept in tenths (n = 21 is 2.1).
Val(t, n, s) == [t |-> t, n |-> n, s |-> s]
Undefined == Val("nil", 0, "")
IntV(n) == Val("int", n, "")
FloatV(n) == Val("float64", n, "")
StrV(s) == Val("string", 0, s)
BoolV(b) == Val("bool", IF b THEN 1 ELSE 0, "")
ObjV(id) == Val("map", id, "")
AryV(id) == Val("slice", id, "")
FuncV(id) == Val("jsfunc", id, "")
NativeV(name) == Val("native", 0, name)

\* A Go error value: e is its concrete type ("nil" for no error).
Err(e, got, want) == [e |-> e, got |-> got, want |-> want]
NoErr == Err("nil", 0, 0)
MutatingConstantError == Err("MutatingConstantError", 0, 0)
NotDeclaredError == Err("NotDeclaredError", 0, 0)
NotImplementedError == Err("NotImplementedError", 0, 0)
NotCallableError == Err("NotCallableError", 0, 0)
NotObjectError == Err("NotObjectError", 0, 0)
NoReturnValueError == Err("NoReturnValueError", 0, 0)
WrongReturnValueError == Err("WrongReturnValueError", 0, 0)
IndexOutOfBoundsError == Err("IndexOutOfBoundsError", 0, 0)
NonIntegerIndexError == Err("NonIntegerIndexError", 0, 0)
NotPairError == Err("NotPairError", 0, 0)
NotFunctionError == Err("NotFunctionError", 0, 0)
WrongNumberOfArgsError(got, want) == Err("WrongNumberOfArgsError", got, want)
\* An error made by a host-supplied native function.
HostError == Err("HostError", 0, 0)
\* A Go run-time panic unwinding to the host (not an error value).
Panic == Err("panic", 0, 0)

\* ------------------------------------------------------------------ scope
Binding(item, constant) == [Item |-> item, Constant |-> constant]
EmptyMap == [n \in {} |-> Undefined]
NoBindings == [n \in {} |-> Binding(Undefined, FALSE)]
\* scope.New: Parent is the index of the parent in the arena, 0 for nil.
New(parent) == [Parent |-> parent, bindings |-> NoBindings]

Found(m, name) == name \in DOMAIN m
Put(m, name, x) == [n \in DOMAIN m \cup {name} |-> IF n = name THEN x ELSE m[n]]

\* S.Set ignoring the Constant flag of the old binding.
SetNoConstCheck(s, name, binding) ==
  [s |-> [s EXCEPT !.bindings = Put(s.bindings, name, binding)], err |-> NoErr]

\* S.Set: the scope after the call and the error returned.
Set(s, name, binding) ==
  IF Found(s.bindings, name) /\ s.bindings[name].Constant
  THEN [s |-> s, err |-> MutatingConstantError]
  ELSE [s |-> [s EXCEPT !.bindings = Put(s.bindings, name, binding)], err |-> NoErr]

\* ------------------------------------------------------------------ syntax
\* The js package's nodes, as the parser hands them to the evaluator.
NilNode == [k |-> "nil"]
Var(name) == [k |-> "Var", Data |-> name]
\* A literal: TokenType, and Data as the lexer left it (int: Atoi succeeds).
DecimalInt(n) == [k |-> "LiteralExpr", TokenType |-> "Decimal", int |-> TRUE, n |-> n, s |-> ""]
DecimalFloat(tenths) == [k |-> "LiteralExpr", TokenType |-> "Decimal", int |-> FALSE, n |-> tenths, s |-> ""]
StringLit(s) == [k |-> "LiteralExpr", TokenType |-> "String", int |-> FALSE, n |-> 0, s |-> s]
OtherLit(tok) == [k |-> "LiteralExpr", TokenType |-> tok, int |-> FALSE, n |-> 0, s |-> ""]
BindingElement(binding, default) == [Binding |-> binding, Default |-> default]
VarDecl(tok, list) == [k |-> "VarDecl", TokenType |-> tok, List |-> list]
BlockStmt(list) == [k |-> "BlockStmt", List |-> list, open |-> FALSE]
ExprStmt(value) == [k |-> "ExprStmt", Value |-> value]
ReturnStmt(value) == [k |-> "ReturnStmt", Value |-> value]
IfStmt(cond, body, else) == [k |-> "IfStmt", Cond |-> cond, Body |-> body, Else |-> else]
CallExpr(x, args) == [k |-> "CallExpr", X |-> x, Args |-> args]
BinaryExpr(op, x, y) == [k |-> "BinaryExpr", Op |-> op, X |-> x, Y |-> y]
ArrowFunc(params, body) == [k |-> "ArrowFunc", Params |-> params, Body |-> body]
FuncDecl(name, params, body) == [k |-> "FuncDecl", Name |-> name, Params |-> params, Body |-> body]
Property(name, computed, value) == [Name |-> name, Computed |-> computed, Value |-> value]
ObjectExpr(list) == [k |-> "ObjectExpr", List |-> list]
ArrayExpr(list) == [k |-> "ArrayExpr", List |-> list]
DotExpr(x, y) == [k |-> "DotExpr", X |-> x, Y |-> y]
IndexExpr(x, y) == [k |-> "IndexExpr", X |-> x, Y |-> y]
ForInStmt(init, value, body) == [k |-> "ForInStmt", Init |-> init, Value |-> value, Body |-> body]
\* A node kind the evaluator has no case for (a class, a while loop, ...).
OtherNode == [k |-> "Other"]
\* ast.BlockStmt of Runtime.Run: the host's statement list, whose statements
\* EvalBlockStmt reads one by one; each is drawn when the loop reaches it.
AstBlockStmt == [k |-> "BlockStmt", List |-> << >>, open |-> TRUE]

\* ------------------------------------------------------------------ state
VARIABLES
  MGlobals,   \* M.Globals: name -> value
  Runtimes,   \* M.Runtimes: each [Globals, Scope]; Scope is an index in scopes
  scopes,     \* the *scope.S objects that are still referenced
  heap,       \* the storage of maps, slices and interpreted functions
  stack,      \* the suspended Go activations, innermost first
  ctl,        \* the call that starts or has returned
  cur,        \* the Runtime the Evaluator runs on (0: the host is in control)
  script,     \* which of the host's scripts the running AST is made of
  runs,       \* Runtime.Run calls made so far
  runErr,     \* what the last Runtime.Run returned
  resp,       \* what the host's capture function received last
  ev          \* what the last step did

vars == <<MGlobals, Runtimes, scopes, heap, stack, ctl, cur, script, runs, runErr, resp, ev>>

Idle == [m |-> "idle"]
EvalC(node) == [m |-> "eval", node |-> node]
RetC(val, err) == [m |-> "ret", val |-> val, err |-> err]
BindC(el, value, constant) == [m |-> "bind", el |-> el, value |-> value, constant |-> constant]
CallC(callable, args) == [m |-> "call", callable |-> callable, args |-> args]
InvokeC(fn, args) == [m |-> "invoke", fn |-> fn, args |-> args]

\* What the last step did; hooks are the extension hooks it called.
Ev(op, name, val, err, a, b) ==
  [op |-> op, name |-> name, val |-> val, err |-> err, a |-> a, b |-> b, hooks |-> {}]
Did(op) == Ev(op, "", Undefined, NoErr, 0, 0)
Hooked(e, hooks) == [e EXCEPT !.hooks = hooks]

\* The extension hooks: both return nil.
ThrottleEvaluation(i) == NoErr
ThrottleAllocation(i) == NoErr

Top == Head(stack)
Scope == Runtimes[cur].Scope
WithScope(rts, r, s) == [rts EXCEPT ![r].Scope = s]
Push(fr) == <<fr>> \o stack
Replace(fr) == <<fr>> \o Tail(stack)
\* Eval(i) past its call of ThrottleEvaluation, at the case of its switch.
Evaluating(kind) == ctl.m = "eval" /\ ThrottleEvaluation(ctl.node) = NoErr /\ ctl.node.k = kind
\* A Go panic is no return: the activations it unwinds run their deferred
\* functions and nothing else.
Panicking == ctl.m = "ret" /\ ctl.err.e = "panic"
Returned(frame) == ctl.m = "ret" /\ ~Panicking /\ stack # << >> /\ Top.f = frame

MaxOf(S) == CHOOSE x \in S : \A y \in S : y <= x

\* The scopes something still points to: the Runtimes' active scopes, the scopes
\* captured by function values, and the scopes saved in suspended activations.
\* Go's collector frees the others; a parent is always older than its child.
Referenced(rts, hp, stk) ==
  {0} \cup {rts[i].Scope : i \in DOMAIN rts}
      \cup {hp[i].scope : i \in {j \in DOMAIN hp : hp[j].t = "jsfunc"}}
      \cup {stk[i].saved : i \in DOMAIN stk}
Collect(scs, rts, hp, stk) == SubSeq(scs, 1, MaxOf(Referenced(rts, hp, stk)))

\* ------------------------------------------------------------------ lookup
RECURSIVE InChain(_, _, _)
\* Whether scope `anc` is `id` or one of its ancestors.
InChain(scs, id, anc) ==
  IF id = 0 THEN FALSE
  ELSE IF id = anc THEN TRUE
  ELSE InChain(scs, scs[id].Parent, anc)

RECURSIVE WalkScopes(_, _, _)
\* The loop of Runtime.Lookup: the first scope from id outwards that has name.
WalkScopes(scs, id, name) ==
  IF id = 0 THEN 0
  ELSE IF Found(scs[id].bindings, name) THEN id
  ELSE WalkScopes(scs, scs[id].Parent, name)

\* Runtime.Lookup with the two globals tables asked before the scopes.
LookupGlobalsFirst(scs, r, mg, name) ==
  IF Found(r.Globals, name) THEN [item |-> r.Globals[name], err |-> NoErr]
  ELSE IF Found(mg, name) THEN [item |-> mg[name], err |-> NoErr]
  ELSE LET s == WalkScopes(scs, r.Scope, name) IN
       IF s # 0 THEN [item |-> scs[s].bindings[name].Item, err |-> NoErr]
       ELSE [item |-> Undefined, err |-> NotDeclaredError]

\* Runtime.Lookup of runtime r, given the scopes and M.Globals.
\* Lookup with one Globals table shared by the Runtimes of the Engine.
LookupSharedGlobals(scs, r, mg, name) ==
  LET s == WalkScopes(scs, r.Scope, name)
      holders == {q \in DOMAIN Runtimes : Found(Runtimes[q].Globals, name)}
  IN
  IF s # 0 THEN [item |-> scs[s].bindings[name].Item, err |-> NoErr]
  ELSE IF holders # {}
  THEN [item |-> Runtimes[CHOOSE q \in holders : TRUE].Globals[name], err |-> NoErr]
  ELSE IF Found(mg, name) THEN [item |-> mg[name], err |-> NoErr]
  ELSE [item |-> Undefined, err |-> NotDeclaredError]

Lookup(scs, r, mg, name) ==
  LET s == WalkScopes(scs, r.Scope, name) IN
  IF s # 0 THEN [item |-> scs[s].bindings[name].Item, err |-> NoErr]
  ELSE IF Found(r.Globals, name) THEN [item |-> r.Globals[name], err |-> NoErr]
  ELSE IF Found(mg, name) THEN [item |-> mg[name], err |-> NoErr]
  ELSE [item |-> Undefined, err |-> NotDeclaredError]

\* ------------------------------------------------------------------ host
\* The callables and values the host registers in M.Globals before it runs a
\* program: reflect's view of each ([func] is Kind() == Func).
Sig(func, variadic, numIn, numOut, out0, out1) ==
  [func |-> func, variadic |-> variadic, numIn |-> numIn, numOut |-> numOut,
   out0 |-> out0, out1 |-> out1]
NativeNames == {"out", "fail", "noret", "badval", "baderr", "rest", "any"}
NativeSig(name) ==
  CASE name = "out" -> Sig(TRUE, FALSE, 1, 2, "interface{}", "error")
    [] name = "fail" -> Sig(TRUE, FALSE, 0, 2, "interface{}", "error")
    [] name = "noret" -> Sig(TRUE, FALSE, 0, 0, "", "")
    [] name = "badval" -> Sig(TRUE, FALSE, 0, 2, "int", "error")
    [] name = "baderr" -> Sig(TRUE, FALSE, 0, 2, "interface{}", "string")
    [] name = "rest" -> Sig(TRUE, TRUE, 2, 2, "interface{}", "error")
    [] name = "any" -> Sig(TRUE, TRUE, 1, 2, "interface{}", "error")
\* func(...interface{}) (interface{}, error), the type of GenerateJSFunction's closure.
JSFuncSig == Sig(TRUE, TRUE, 1, 2, "interface{}", "error")
NotFuncSig == Sig(FALSE, FALSE, 0, 0, "", "")

Init ==
  /\ MGlobals = [n \in NativeNames |-> NativeV(n)]
  /\ Runtimes = << >>
  /\ scopes = << >>
  /\ heap = << >>
  /\ stack = << >>
  /\ ctl = Idle
  /\ cur = 0
  /\ script = 0
  /\ runs = 0
  /\ runErr = NoErr
  /\ resp = Undefined
  /\ ev = Did("New")

NewRuntime ==
  /\ ctl.m = "idle"
  /\ Len(Runtimes) < MaxRuntimes
  /\ scopes' = Append(scopes, New(0))
  /\ Runtimes' = Append(Runtimes, [Globals |-> EmptyMap, Scope |-> Len(scopes) + 1])
  /\ ev' = Did("NewRuntime")
  /\ UNCHANGED <<MGlobals, heap, stack, ctl, cur, script, runs, runErr, resp>>

\* m.Globals[name] = v by the host.
SetEngineGlobal ==
  /\ ctl.m = "idle"
  /\ \E v \in {IntV(7)} :
       MGlobals' = Put(MGlobals, "g", v)
  /\ ev' = Did("SetEngineGlobal")
  /\ UNCHANGED <<Runtimes, scopes, heap, stack, ctl, cur, script, runs, runErr, resp>>

\* r.Globals[name] = v by the host.
SetRuntimeGlobal ==
  /\ ctl.m = "idle"
  /\ \E r \in DOMAIN Runtimes, v \in {Undefined} :
       Runtimes' = [Runtimes EXCEPT ![r].Globals = Put(@, "g", v)]
  /\ ev' = Did("SetRuntimeGlobal")
  /\ UNCHANGED <<MGlobals, scopes, heap, stack, ctl, cur, script, runs, runErr, resp>>

\* The names and values the host registers and asks for: g is a global, f and
\* x are names the scripts declare.
HostNames == {"g"}
HostItems == {IntV(7), IntV(8)}
ScriptNames == {"f", "x"}

\* r.Lookup(name) by the host, between two programs.
Runtime_Lookup ==
  /\ ctl.m = "idle"
  /\ \E r \in DOMAIN Runtimes, name \in HostNames \cup ScriptNames :
       LET res == Lookup(scopes, Runtimes[r], MGlobals, name) IN
       ev' = Ev("HostLookup", name, res.item, res.err, r, 0)
  /\ UNCHANGED <<MGlobals, Runtimes, scopes, heap, stack, ctl, cur, script, runs, runErr, resp>>

\* r.Call(funcName, 1) by the host: Lookup, then Call(f, args), whose return
\* the host takes as it takes the return of Run.
Runtime_Call ==
  /\ ctl.m = "idle"
  /\ \E r \in DOMAIN Runtimes, funcName \in {"f", "out"} :
       LET res == Lookup(scopes, Runtimes[r], MGlobals, funcName) IN
       IF res.err # NoErr
       THEN /\ ev' = Ev("HostCall", funcName, Undefined, res.err, r, 0)
            /\ UNCHANGED <<ctl, cur>>
       ELSE /\ ctl' = CallC(res.item, <<IntV(1)>>)
            /\ cur' = r
            /\ ev' = Ev("HostCall", funcName, res.item, NoErr, r, 0)
  /\ UNCHANGED <<MGlobals, Runtimes, scopes, heap, stack, script, runs, runErr, resp>>

\* ------------------------------------------------------------------ programs
\* Shorthands for the statements below.
Let(name, init) == VarDecl("let", <<BindingElement(Var(name), init)>>)
Const(name, init) == VarDecl("const", <<BindingElement(Var(name), init)>>)
Assign(target, value) == ExprStmt(BinaryExpr("=", target, value))
CallStmt(name, args) == ExprStmt(CallExpr(Var(name), args))
Out(value) == CallStmt("out", <<value>>)
Param(name) == BindingElement(Var(name), NilNode)

\* let x = 1; const x = 2; x = 3; { x = 4; } { let x = 5; out(x); } out(x);
\* out(g); let g; { const x = 6; x = 7; }
ScopeScript == <<
  Let("x", DecimalInt(1)),
  Const("x", DecimalInt(2)),
  Assign(Var("x"), DecimalInt(3)),
  BlockStmt(<<Assign(Var("x"), DecimalInt(4))>>),
  BlockStmt(<<Let("x", DecimalInt(5)), Out(Var("x"))>>),
  Out(Var("x")),
  Out(Var("g")),
  Let("g", NilNode),
  BlockStmt(<<Const("x", DecimalInt(6)), Assign(Var("x"), DecimalInt(7))>>)
>>

\* let x = 1; function f(a, b = x) { x = a; return b; } out(f(2));
\* { let x = 5; out(f(x)); } f(1, 2, 3); function h(a = z) {} { h(); }
\* function r(n) { if (n) { r(0); } return n; } out(r(1));
\* const d = (a = 7) => { out(a); }; let u; d(u);
FunctionScript == <<
  Let("x", DecimalInt(1)),
  FuncDecl("f", <<Param("a"), BindingElement(Var("b"), Var("x"))>>,
           BlockStmt(<<Assign(Var("x"), Var("a")), ReturnStmt(Var("b"))>>)),
  Out(CallExpr(Var("f"), <<DecimalInt(2)>>)),
  BlockStmt(<<Let("x", DecimalInt(5)), Out(CallExpr(Var("f"), <<Var("x")>>))>>),
  CallStmt("f", <<DecimalInt(1), DecimalInt(2), DecimalInt(3)>>),
  FuncDecl("h", <<BindingElement(Var("a"), Var("z"))>>, BlockStmt(<< >>)),
  BlockStmt(<<CallStmt("h", << >>)>>),
  FuncDecl("r", <<Param("n")>>,
           BlockStmt(<<IfStmt(Var("n"), BlockStmt(<<CallStmt("r", <<DecimalInt(0)>>)>>), NilNode),
                       ReturnStmt(Var("n"))>>)),
  Out(CallExpr(Var("r"), <<DecimalInt(1)>>)),
  Const("d", ArrowFunc(<<BindingElement(Var("a"), DecimalInt(7))>>,
                       BlockStmt(<<Out(Var("a"))>>))),
  VarDecl("let", <<Param("u"), BindingElement(Var("v"), CallExpr(Var("d"), <<Var("u")>>))>>)
>>

\* out(1); fail(); out(z); rest(fail(), out(2)); { { z; } out(3); }
\* for (let e in [1, 2]) { fail(); } const t = () => { fail(); out(4); }; t();
\* a node without a case; let [a] = 1;
ErrorScript == <<
  Out(DecimalInt(1)),
  CallStmt("fail", << >>),
  Out(Var("z")),
  CallStmt("rest", <<CallExpr(Var("fail"), << >>), CallExpr(Var("out"), <<DecimalInt(2)>>)>>),
  BlockStmt(<<BlockStmt(<<ExprStmt(Var("z"))>>), Out(DecimalInt(3))>>),
  ForInStmt(Let("e", NilNode), ArrayExpr(<<DecimalInt(1), DecimalInt(2)>>),
            BlockStmt(<<CallStmt("fail", << >>)>>)),
  Const("t", ArrowFunc(<< >>, BlockStmt(<<CallStmt("fail", << >>), Out(DecimalInt(4))>>))),
  CallStmt("t", << >>),
  OtherNode,
  VarDecl("let", <<BindingElement(OtherNode, DecimalInt(1))>>)
>>

\* let o = {k: 1}; let p = o; p.k = 2; o["k"] = 3; out(o.k); out(p["k"]);
\* let a = [1, 2]; p = a; p[0] = 5; out(a[0]); const m = (q) => { q.k = 9; }; m(o);
ObjectScript == <<
  Let("o", ObjectExpr(<<Property("k", NilNode, DecimalInt(1))>>)),
  Let("p", Var("o")),
  Assign(DotExpr(Var("p"), "k"), DecimalInt(2)),
  Assign(IndexExpr(Var("o"), StringLit("k")), DecimalInt(3)),
  Out(DotExpr(Var("o"), "k")),
  Out(IndexExpr(Var("p"), StringLit("k"))),
  Let("o", ArrayExpr(<<DecimalInt(1), DecimalInt(2)>>)),
  Assign(IndexExpr(Var("p"), DecimalInt(0)), DecimalInt(5)),
  Out(IndexExpr(Var("o"), DecimalInt(0))),
  ExprStmt(CallExpr(ArrowFunc(<<Param("q")>>,
                              BlockStmt(<<Assign(DotExpr(Var("q"), "k"), DecimalInt(9))>>)),
                    <<Var("o")>>))
>>

\* The calls Call checks: 1(); out(); out(1); out(1, 2); fail(); noret();
\* noret(1); badval(); baderr(); rest(); rest(1); any(); any(1, 2);
CallScript == <<
  ExprStmt(CallExpr(DecimalInt(1), << >>)),
  CallStmt("out", << >>),
  CallStmt("out", <<DecimalInt(1)>>),
  CallStmt("out", <<DecimalInt(1), DecimalInt(2)>>),
  CallStmt("fail", << >>),
  CallStmt("noret", << >>),
  CallStmt("noret", <<DecimalInt(1)>>),
  CallStmt("badval", << >>),
  CallStmt("baderr", << >>),
  CallStmt("rest", << >>),
  CallStmt("rest", <<DecimalInt(1)>>),
  CallStmt("any", << >>),
  CallStmt("any", <<DecimalInt(1), DecimalInt(2)>>)
>>

\* const o = {x: 1, [2]: 2}; const a = [1, 2];
\* for (const k in o) { out(k); } for (let e in a) { out(e); }
\* out(a.map((v) => { return v * 2; })); out(o.reduce((k, v, sum) => { return sum + v; }, 0));
\* o.forEach((k, v) => { out(k); });
LoopScript == <<
  Const("o", ObjectExpr(<<Property("x", NilNode, DecimalInt(1)),
                          Property("", DecimalInt(2), DecimalInt(2))>>)),
  Const("a", ArrayExpr(<<DecimalInt(1), DecimalInt(2)>>)),
  ForInStmt(Const("k", NilNode), Var("o"), BlockStmt(<<Out(Var("k"))>>)),
  ForInStmt(Let("e", NilNode), Var("a"), BlockStmt(<<Out(Var("e"))>>)),
  Out(CallExpr(DotExpr(Var("a"), "map"),
               <<ArrowFunc(<<Param("v")>>,
                           BlockStmt(<<ReturnStmt(BinaryExpr("*", Var("v"), DecimalInt(2)))>>))>>)),
  Out(CallExpr(DotExpr(Var("o"), "reduce"),
               <<ArrowFunc(<<Param("k"), Param("v"), Param("sum")>>,
                           BlockStmt(<<ReturnStmt(BinaryExpr("+", Var("sum"), Var("v")))>>)),
                 DecimalInt(0)>>)),
  ExprStmt(CallExpr(DotExpr(Var("o"), "forEach"),
                    <<ArrowFunc(<<Param("k"), Param("v")>>, BlockStmt(<<Out(Var("k"))>>))>>))
>>

\* const a = [0, 2, 4]; a[1] = 6; out(a[1]);
\* const c = {"x": "y"}; c["x"] = "z"; c.x = "w"; out(c.x);
ConstScript == <<
  Const("a", ArrayExpr(<<DecimalInt(0), DecimalInt(2), DecimalInt(4)>>)),
  Assign(IndexExpr(Var("a"), DecimalInt(1)), DecimalInt(6)),
  Out(IndexExpr(Var("a"), DecimalInt(1))),
  Const("c", ObjectExpr(<<Property("x", NilNode, StringLit("y"))>>)),
  Assign(IndexExpr(Var("c"), StringLit("x")), StringLit("z")),
  Assign(DotExpr(Var("c"), "x"), StringLit("w")),
  Out(DotExpr(Var("c"), "x"))
>>

\* The call f() of the function expression () => body.
Invoked(body) == CallExpr(ArrowFunc(<< >>, BlockStmt(body)), << >>)

\* [1, 2].forEach(out); (() => { return 1; out(2); 3; })();
\* (() => { if (1) { return 5; } })(); (() => { for (let e in [1]) { return e; } })();
BodyScript == <<
  ExprStmt(CallExpr(DotExpr(ArrayExpr(<<DecimalInt(1), DecimalInt(2)>>), "forEach"),
                    <<Var("out")>>)),
  ExprStmt(Invoked(<<ReturnStmt(DecimalInt(1)), Out(DecimalInt(2)), ExprStmt(DecimalInt(3))>>)),
  ExprStmt(Invoked(<<IfStmt(DecimalInt(1), BlockStmt(<<ReturnStmt(DecimalInt(5))>>), NilNode)>>)),
  ExprStmt(Invoked(<<ForInStmt(Let("e", NilNode), ArrayExpr(<<DecimalInt(1)>>),
                               BlockStmt(<<ReturnStmt(Var("e"))>>))>>))
>>

\* The call {x: 1, [2]: 2}.map((k, v) => { return result; })
MapCall(result) ==
  CallExpr(DotExpr(ObjectExpr(<<Property("x", NilNode, DecimalInt(1)),
                                Property("", DecimalInt(2), DecimalInt(2))>>), "map"),
           <<ArrowFunc(<<Param("k"), Param("v")>>, BlockStmt(<<ReturnStmt(result)>>))>>)

\* Each statement is the last of its program, fail taking no argument:
\* fail({x: 1, [2]: 2}.map((k, v) => { return [v, k]; }));
\* fail({x: 1, [2]: 2}.map((k, v) => { return [1, v]; }));
\* fail({x: 1, [2]: 2}.map((k, v) => { return [k, v, 1]; }));
\* fail({x: 1, [2]: 2}.map((k, v) => { return v; }));
MapScript == <<
  CallStmt("fail", <<MapCall(ArrayExpr(<<Var("v"), Var("k")>>))>>),
  CallStmt("fail", <<MapCall(ArrayExpr(<<DecimalInt(1), Var("v")>>))>>),
  CallStmt("fail", <<MapCall(ArrayExpr(<<Var("k"), Var("v"), DecimalInt(1)>>))>>),
  CallStmt("fail", <<MapCall(Var("v"))>>)
>>

\* The call ary.reduce((e, s) => { body }, initial)
ReduceCall(ary, body, initial) ==
  CallExpr(DotExpr(ArrayExpr(ary), "reduce"),
           <<ArrowFunc(<<Param("e"), Param("s")>>, BlockStmt(body)), initial>>)

\* Each statement is the last of its program:
\* fail([1, 2].reduce((e, s) => { return s + e; }, "k"));
\* fail([].reduce((e, s) => { return s + e; }, 5));
\* [1, 2].reduce((e, s) => { fail(); }, 0);
ReduceScript == <<
  CallStmt("fail", <<ReduceCall(<<DecimalInt(1), DecimalInt(2)>>,
                                <<ReturnStmt(BinaryExpr("+", Var("s"), Var("e")))>>,
                                StringLit("k"))>>),
  CallStmt("fail", <<ReduceCall(<< >>, <<ReturnStmt(BinaryExpr("+", Var("s"), Var("e")))>>,
                                DecimalInt(5))>>),
  ExprStmt(ReduceCall(<<DecimalInt(1), DecimalInt(2)>>, <<CallStmt("fail", << >>)>>,
                      DecimalInt(0)))
>>

\* for (let e in 1) { out(e); } for (let e, f in [1]) { out(e); }
ForInScript == <<
  ForInStmt(Let("e", NilNode), DecimalInt(1), BlockStmt(<<Out(Var("e"))>>)),
  ForInStmt(VarDecl("let", <<Param("e"), Param("f")>>), ArrayExpr(<<DecimalInt(1)>>),
            BlockStmt(<<Out(Var("e"))>>))
>>

\* The host's programs: the top-level block of a Run is any sequence of at most
\* MaxStmts statements of one of these scripts.
Scripts == <<ScopeScript, FunctionScript, ErrorScript, ObjectScript, CallScript, LoopScript,
             ConstScript, BodyScript, MapScript, ReduceScript, ForInScript>>

\* ------------------------------------------------------------------ rendering
Digit == <<"0", "1", "2", "3", "4", "5", "6", "7", "8", "9">>
RECURSIVE Itoa(_)
Itoa(n) ==
  IF n < 0 THEN "-" \o Itoa(-n)
  ELSE IF n < 10 THEN Digit[n + 1]
  ELSE Itoa(n \div 10) \o Digit[(n % 10) + 1]
\* A float64 in tenths, as %v prints it: 30 is "3", 21 is "2.1".
Ftoa(n) ==
  LET a == IF n < 0 THEN -n ELSE n
      whole == Itoa(a \div 10)
      body == IF a % 10 = 0 THEN whole ELSE whole \o "." \o Digit[(a % 10) + 1]
  IN IF n < 0 THEN "-" \o body ELSE body

\* Go's x % y for y > 0: the remainder has the sign of x.
GoRem(x, y) == IF x >= 0 THEN x % y ELSE -((-x) % y)

\* The keys the scripts can give a map, in the byte order fmt sorts map keys by.
KeyOrder == <<"1", "2", "3", "k", "map", "x", "y">>

RECURSIVE Sprint(_, _)
RECURSIVE SprintElems(_, _, _)
RECURSIVE SprintEntries(_, _, _, _)
\* The elements of a slice from index i on, separated by spaces.
SprintElems(hp, a, i) ==
  IF i > Len(a) THEN ""
  ELSE (IF i > 1 THEN " " ELSE "") \o Sprint(hp, a[i]) \o SprintElems(hp, a, i + 1)
\* The entries of a map from the i-th key of KeyOrder on; first: none printed yet.
SprintEntries(hp, m, i, first) ==
  IF i > Len(KeyOrder) THEN ""
  ELSE IF KeyOrder[i] \in DOMAIN m
  THEN (IF first THEN "" ELSE " ") \o KeyOrder[i] \o ":" \o Sprint(hp, m[KeyOrder[i]])
       \o SprintEntries(hp, m, i + 1, FALSE)
  ELSE SprintEntries(hp, m, i + 1, first)
\* fmt.Sprint of one value. Every closure of GenerateJSFunction has the same
\* code pointer, which is what %v prints of a func.
Sprint(hp, v) ==
  CASE v.t = "nil" -> "<nil>"
    [] v.t = "int" -> Itoa(v.n)
    [] v.t = "float64" -> IF v.s # "" THEN v.s ELSE Ftoa(v.n)
    [] v.t = "string" -> v.s
    [] v.t = "bool" -> IF v.n = 1 THEN "true" ELSE "false"
    [] v.t = "slice" -> "[" \o SprintElems(hp, hp[v.n].a, 1) \o "]"
    [] v.t = "map" -> "map[" \o SprintEntries(hp, hp[v.n].m, 1, TRUE) \o "]"
    [] v.t = "jsfunc" -> "0xc0de"
    [] OTHER -> "0x" \o v.s

\* ------------------------------------------------------------------ Run
\* Runtime.Run: Eval(&ast.BlockStmt). The host's capture starts empty, so what
\* an earlier program allocated is garbage.
Run ==
  /\ ctl.m = "idle"
  /\ runs < MaxRuns
  /\ \E r \in DOMAIN Runtimes, sc \in DOMAIN Scripts :
       /\ cur' = r
       /\ script' = sc
  /\ runs' = runs + 1
  /\ ctl' = EvalC(AstBlockStmt)
  /\ runErr' = NoErr
  /\ resp' = Undefined
  /\ heap' = << >>
  /\ scopes' = Collect(scopes, Runtimes, heap', << >>)
  /\ ev' = Did("Run")
  /\ UNCHANGED <<MGlobals, Runtimes, stack>>

\* Runtime.Run returns the error of Eval. What the program allocated is garbage
\* from here on, but for what the host received: of a map, slice or function
\* the host holds, the state keeps how it prints.
Run_Return ==
  /\ ctl.m = "ret"
  /\ ~Panicking
  /\ stack = << >>
  /\ runErr' = ctl.err
  /\ ctl' = Idle
  /\ cur' = 0
  /\ script' = 0
  /\ resp' = IF resp.t \in {"map", "slice", "jsfunc"}
             THEN Val("printed", 0, Sprint(heap, resp)) ELSE resp
  /\ heap' = << >>
  /\ scopes' = Collect(scopes, Runtimes, heap', << >>)
  /\ ev' = Ev("RunReturn", "", Undefined, ctl.err, 0, 0)
  /\ UNCHANGED <<MGlobals, Runtimes, stack, runs>>

\* ------------------------------------------------------------------ Eval
\* Eval(nil): an absent else branch, default expression or return operand.
Eval_Nil ==
  /\ Evaluating("nil")
  /\ ctl' = RetC(Undefined, NoErr)
  /\ ev' = Hooked(Did("Eval"), {"ThrottleEvaluation"})
  /\ UNCHANGED <<MGlobals, Runtimes, scopes, heap, stack, cur, script, runs, runErr, resp>>

\* Eval's final return: a node kind without a case.
Eval_NotImplemented ==
  /\ Evaluating("Other")
  /\ ctl' = RetC(Undefined, NotImplementedError)
  /\ ev' = Hooked(Did("Eval"), {"ThrottleEvaluation"})
  /\ UNCHANGED <<MGlobals, Runtimes, scopes, heap, stack, cur, script, runs, runErr, resp>>

\* case *js.ExprStmt: return e.Eval(v.Value)
Eval_ExprStmt ==
  /\ Evaluating("ExprStmt")
  /\ ctl' = EvalC(ctl.node.Value)
  /\ ev' = Hooked(Did("Eval"), {"ThrottleEvaluation"})
  /\ UNCHANGED <<MGlobals, Runtimes, scopes, heap, stack, cur, script, runs, runErr, resp>>

\* A return that makes its block skip the statements after it.
EvalReturnStmtEndsBlock ==
  /\ Evaluating("ReturnStmt")
  /\ ctl' = EvalC(ctl.node.Value)
  /\ stack' = IF stack # << >> /\ Top.f = "Block" /\ ~Top.open
              THEN Replace([Top EXCEPT !.i = Len(Top.List)]) ELSE stack
  /\ ev' = Hooked(Did("Eval"), {"ThrottleEvaluation"})
  /\ UNCHANGED <<MGlobals, Runtimes, scopes, heap, cur, script, runs, runErr, resp>>

\* Eval of a ReturnStmt: e.Eval(stmt.Value), nothing else.
EvalReturnStmt ==
  /\ Evaluating("ReturnStmt")
  /\ ctl' = EvalC(ctl.node.Value)
  /\ ev' = Hooked(Did("Eval"), {"ThrottleEvaluation"})
  /\ UNCHANGED <<MGlobals, Runtimes, scopes, heap, stack, cur, script, runs, runErr, resp>>

\* strconv.Atoi, else strconv.ParseFloat, of a decimal; a string without its quotes.
LiteralValue(expr) ==
  CASE expr.TokenType = "Decimal" /\ expr.int -> [val |-> IntV(expr.n), err |-> NoErr]
    [] expr.TokenType = "Decimal" /\ ~expr.int -> [val |-> FloatV(expr.n), err |-> NoErr]
    [] expr.TokenType = "String" -> [val |-> StrV(expr.s), err |-> NoErr]
    [] OTHER -> [val |-> Undefined, err |-> NotImplementedError]

EvalLiteralExpr ==
  /\ Evaluating("LiteralExpr")
  /\ ctl' = RetC(LiteralValue(ctl.node).val, LiteralValue(ctl.node).err)
  /\ ev' = Hooked(Did("Eval"), {"ThrottleEvaluation"})
  /\ UNCHANGED <<MGlobals, Runtimes, scopes, heap, stack, cur, script, runs, runErr, resp>>

EvalVar ==
  /\ Evaluating("Var")
  /\ LET r == Lookup(scopes, Runtimes[cur], MGlobals, ctl.node.Data) IN
       /\ ctl' = RetC(r.item, r.err)
       /\ ev' = Hooked(Ev("Lookup", ctl.node.Data, r.item, r.err, 0, 0), {"ThrottleEvaluation"})
  /\ UNCHANGED <<MGlobals, Runtimes, scopes, heap, stack, cur, script, runs, runErr, resp>>

\* ------------------------------------------------------------------ blocks
\* The deferred function of EvalBlockStmt that pops only when no error is returned.
BlockExitScopeOnSuccess(scs, active, err) ==
  IF err = NoErr THEN scs[active].Parent ELSE active

\* EvalBlockStmt leaving its scope active when it returns.
BlockExitScopeKept(scs, active, err) == active

\* The deferred function of EvalBlockStmt: e.Runtime.Scope = e.Runtime.Scope.Parent
BlockExitScope(scs, active, err) == scs[active].Parent

\* EvalBlockStmt up to its loop. The frame's saved is the scope active on entry,
\* which the code does not keep: it is here to state what the exit restores.
EvalBlockStmt ==
  /\ Evaluating("BlockStmt")
  /\ scopes' = Append(scopes, New(Scope))
  /\ Runtimes' = WithScope(Runtimes, cur, Len(scopes) + 1)
  /\ stack' = Push([f |-> "Block", saved |-> Scope, List |-> ctl.node.List,
                    open |-> ctl.node.open, i |-> 0, stmt |-> NilNode])
  /\ ctl' = RetC(Undefined, NoErr)
  /\ ev' = Hooked(Ev("EnterBlock", "", Undefined, NoErr, Scope, Len(scopes) + 1), {"ThrottleEvaluation"})
  /\ UNCHANGED <<MGlobals, heap, cur, script, runs, runErr, resp>>

\* The loop of EvalBlockStmt going on to statement i + 1 of n whatever the
\* statement before it returned.
BlockContinuesOnError(err, i, n) == i < n

\* Whether the loop of EvalBlockStmt goes on to statement i + 1 of n after a
\* statement that returned err.
BlockContinues(err, i, n) == err = NoErr /\ i < n

\* The loop of EvalBlockStmt takes the next statement of stmt.List: the frame's
\* stmt is the loop variable.
EvalBlockStmt_Next ==
  /\ Returned("Block")
  /\ \/ /\ ~Top.open
        /\ BlockContinues(ctl.err, Top.i, Len(Top.List))
        /\ ctl' = EvalC(Top.List[Top.i + 1])
     \/ /\ Top.open
        /\ BlockContinues(ctl.err, Top.i, MaxStmts)
        /\ \E j \in DOMAIN Scripts[script] : ctl' = EvalC(Scripts[script][j])
  /\ stack' = Replace([Top EXCEPT !.i = @ + 1, !.stmt = ctl'.node])
  /\ ev' = Did("NextStmt")
  /\ UNCHANGED <<MGlobals, Runtimes, scopes, heap, cur, script, runs, runErr, resp>>

\* EvalBlockStmt returns: on an error, or after the last statement of stmt.List.
EvalBlockStmt_Return ==
  /\ Returned("Block")
  /\ Top.open \/ ~BlockContinues(ctl.err, Top.i, Len(Top.List))
  /\ Runtimes' = WithScope(Runtimes, cur, BlockExitScope(scopes, Scope, ctl.err))
  /\ stack' = Tail(stack)
  /\ scopes' = Collect(scopes, Runtimes', heap, stack')
  /\ ctl' = RetC(IF ctl.err = NoErr THEN ctl.val ELSE Undefined, ctl.err)
  /\ ev' = Ev("ExitBlock", "", Undefined, ctl.err, Top.saved, Scope)
  /\ UNCHANGED <<MGlobals, heap, cur, script, runs, runErr, resp>>

\* ------------------------------------------------------------------ bindings
\* The switch of EvalBindingElement: the active scope afterwards (Set's error
\* is dropped) and the error returned.
BindingResult(s, el, value, constant) ==
  IF ThrottleAllocation(value) # NoErr THEN [s |-> s, err |-> ThrottleAllocation(value)]
  ELSE IF el.Binding.k = "Var"
  THEN [s |-> Set(s, el.Binding.Data, Binding(value, constant)).s, err |-> NoErr]
  ELSE [s |-> s, err |-> NotImplementedError]

\* The name a binding element declares, "" for a pattern.
BoundName(el) == IF el.Binding.k = "Var" THEN el.Binding.Data ELSE ""

\* EvalBindingElement up to the evaluation of el.Default, or to its end.
EvalBindingElement ==
  /\ ctl.m = "bind"
  /\ IF ctl.value = Undefined
     THEN /\ stack' = Push([f |-> "BindingElement", saved |-> 0, el |-> ctl.el,
                            constant |-> ctl.constant])
          /\ ctl' = EvalC(ctl.el.Default)
          /\ ev' = Did("BindDefault")
          /\ UNCHANGED scopes
     ELSE LET b == BindingResult(scopes[Scope], ctl.el, ctl.value, ctl.constant) IN
          /\ scopes' = [scopes EXCEPT ![Scope] = b.s]
          /\ ctl' = RetC(Undefined, b.err)
          /\ ev' = Hooked(Ev("Bind", BoundName(ctl.el), ctl.value, b.err, Scope, 0),
                          {"ThrottleAllocation"})
          /\ UNCHANGED stack
  /\ UNCHANGED <<MGlobals, Runtimes, heap, cur, script, runs, runErr, resp>>

\* EvalBindingElement after Eval(el.Default).
EvalBindingElement_Default ==
  /\ Returned("BindingElement")
  /\ stack' = Tail(stack)
  /\ IF ctl.err # NoErr
     THEN /\ ctl' = RetC(Undefined, ctl.err)
          /\ ev' = Ev("Unwind", "", Undefined, ctl.err, 0, 0)
          /\ UNCHANGED scopes
     ELSE LET b == BindingResult(scopes[Scope], Top.el, ctl.val, Top.constant) IN
          /\ scopes' = [scopes EXCEPT ![Scope] = b.s]
          /\ ctl' = RetC(Undefined, b.err)
          /\ ev' = Hooked(Ev("Bind", BoundName(Top.el), ctl.val, b.err, Scope, 0),
                          {"ThrottleAllocation"})
  /\ UNCHANGED <<MGlobals, Runtimes, heap, cur, script, runs, runErr, resp>>

EvalVarDecl ==
  /\ Evaluating("VarDecl")
  /\ IF ctl.node.List = << >>
     THEN /\ ctl' = RetC(Undefined, NoErr)
          /\ UNCHANGED stack
     ELSE /\ stack' = Push([f |-> "VarDecl", saved |-> 0, decl |-> ctl.node, i |-> 1])
          /\ ctl' = BindC(ctl.node.List[1], Undefined, ctl.node.TokenType = "const")
  /\ ev' = Hooked(Did("Eval"), {"ThrottleEvaluation"})
  /\ UNCHANGED <<MGlobals, Runtimes, scopes, heap, cur, script, runs, runErr, resp>>

\* The loop of EvalVarDecl after an EvalBindingElement.
EvalVarDecl_Next ==
  /\ Returned("VarDecl")
  /\ IF ctl.err = NoErr /\ Top.i < Len(Top.decl.List)
     THEN /\ stack' = Replace([Top EXCEPT !.i = @ + 1])
          /\ ctl' = BindC(Top.decl.List[Top.i + 1], Undefined, Top.decl.TokenType = "const")
          /\ ev' = Did("NextBinding")
     ELSE /\ stack' = Tail(stack)
          /\ ctl' = RetC(Undefined, ctl.err)
          /\ ev' = Ev("Return", "", Undefined, ctl.err, 0, 0)
  /\ UNCHANGED <<MGlobals, Runtimes, scopes, heap, cur, script, runs, runErr, resp>>

\* ------------------------------------------------------------------ functions
\* GenerateJSFunction: the closure keeps parentScope, the scope active now.
JSFunction(parentScope, params, body) ==
  [t |-> "jsfunc", scope |-> parentScope, params |-> params, body |-> body]

EvalFuncDecl ==
  /\ Evaluating("FuncDecl")
  /\ heap' = Append(heap, JSFunction(Scope, ctl.node.Params, ctl.node.Body))
  /\ scopes' = [scopes EXCEPT ![Scope] =
                  Set(@, ctl.node.Name, Binding(FuncV(Len(heap) + 1), TRUE)).s]
  /\ ctl' = RetC(Undefined, NoErr)
  /\ ev' = Hooked(Ev("FuncDecl", ctl.node.Name, FuncV(Len(heap) + 1), NoErr, Scope, 0), {"ThrottleEvaluation"})
  /\ UNCHANGED <<MGlobals, Runtimes, stack, cur, script, runs, runErr, resp>>

EvalArrowFunc ==
  /\ Evaluating("ArrowFunc")
  /\ heap' = Append(heap, JSFunction(Scope, ctl.node.Params, ctl.node.Body))
  /\ ctl' = RetC(FuncV(Len(heap) + 1), NoErr)
  /\ ev' = Hooked(Ev("ArrowFunc", "", FuncV(Len(heap) + 1), NoErr, Scope, 0), {"ThrottleEvaluation"})
  /\ UNCHANGED <<MGlobals, Runtimes, scopes, stack, cur, script, runs, runErr, resp>>

\* EvalCallExpr up to Eval(expr.X).
EvalCallExpr ==
  /\ Evaluating("CallExpr")
  /\ stack' = Push([f |-> "CallExpr", saved |-> 0, expr |-> ctl.node, phase |-> "X",
                    callable |-> Undefined, args |-> << >>])
  /\ ctl' = EvalC(ctl.node.X)
  /\ ev' = Hooked(Did("Eval"), {"ThrottleEvaluation"})
  /\ UNCHANGED <<MGlobals, Runtimes, scopes, heap, cur, script, runs, runErr, resp>>

\* EvalCallExpr after the callee or an argument: the next argument, or Call.
EvalCallExpr_Next ==
  /\ Returned("CallExpr")
  /\ LET callable == IF Top.phase = "X" THEN ctl.val ELSE Top.callable
         args == IF Top.phase = "X" THEN << >> ELSE Append(Top.args, ctl.val)
         list == Top.expr.Args
     IN
     IF ctl.err # NoErr
     THEN /\ stack' = Tail(stack)
          /\ ctl' = RetC(Undefined, ctl.err)
          /\ ev' = Ev("Unwind", "", Undefined, ctl.err, 0, 0)
     ELSE IF Len(args) < Len(list)
     THEN /\ stack' = Replace([Top EXCEPT !.phase = "Args", !.callable = callable,
                                          !.args = args])
          /\ ctl' = EvalC(list[Len(args) + 1])
          /\ ev' = Did("NextArg")
     ELSE /\ stack' = Tail(stack)
          /\ ctl' = CallC(callable, args)
          /\ ev' = Did("Args")
  /\ UNCHANGED <<MGlobals, Runtimes, scopes, heap, cur, script, runs, runErr, resp>>

\* reflect's view of a value held by the program.
SigOf(v) ==
  CASE v.t = "jsfunc" -> JSFuncSig
    [] v.t = "native" -> NativeSig(v.s)
    [] v.t = "builtin" -> Sig(TRUE, FALSE, IF v.s = "reduce" THEN 2 ELSE 1, 2,
                              "interface{}", "error")
    [] OTHER -> NotFuncSig

\* Call's checks without the arity check.
CallCheckNoArity(sig, nargs) ==
  IF ~sig.func THEN NotCallableError
  ELSE IF sig.numOut # 2 THEN NoReturnValueError
  ELSE IF sig.out0 # "interface{}" THEN WrongReturnValueError
  ELSE IF sig.out1 # "error" THEN WrongReturnValueError
  ELSE NoErr

\* The checks of Call, in its order: the error returned, NoErr to go on.
CallCheck(sig, nargs) ==
  IF ~sig.func THEN NotCallableError
  ELSE IF ~sig.variadic /\ sig.numIn # nargs THEN WrongNumberOfArgsError(nargs, sig.numIn)
  ELSE IF sig.numOut # 2 THEN NoReturnValueError
  ELSE IF sig.out0 # "interface{}" THEN WrongReturnValueError
  ELSE IF sig.out1 # "error" THEN WrongReturnValueError
  ELSE NoErr

\* refCallable.Call(args) panics ("reflect: Call with too few input arguments")
\* when a variadic function gets fewer arguments than its fixed parameters.
ReflectCallPanics(sig, nargs) == sig.variadic /\ nargs < sig.numIn - 1

\* What the host's functions do when called: the value and error they return.
NativeResult(name, args) ==
  IF name = "fail" THEN [val |-> Undefined, err |-> HostError]
  ELSE [val |-> Undefined, err |-> NoErr]

\* Call: the checks, then refCallable.Call(args), which runs a host function to
\* its end or enters the closure of GenerateJSFunction.
Call ==
  /\ ctl.m = "call"
  /\ LET sig == SigOf(ctl.callable)
         n == Len(ctl.args)
         err == CallCheck(sig, n)
     IN
     IF err # NoErr
     THEN /\ ctl' = RetC(Undefined, err)
          /\ ev' = Ev("CallRejected", ctl.callable.s, ctl.callable, err, n, 0)
     ELSE IF ReflectCallPanics(sig, n)
     THEN /\ ctl' = RetC(Undefined, Panic)
          /\ ev' = Ev("CallPanic", ctl.callable.s, ctl.callable, Panic, n, 0)
     ELSE /\ ctl' = InvokeC(ctl.callable, ctl.args)
          /\ ev' = Ev("CallInvoke", ctl.callable.s, ctl.callable, NoErr, n, 0)
  /\ UNCHANGED <<MGlobals, Runtimes, scopes, heap, stack, cur, script, runs, runErr, resp>>

\* A function of the host runs to its end; "out" keeps its argument.
Native ==
  /\ ctl.m = "invoke"
  /\ ctl.fn.t = "native"
  /\ LET res == NativeResult(ctl.fn.s, ctl.args) IN
       /\ ctl' = RetC(res.val, res.err)
       /\ ev' = Ev("Native", ctl.fn.s, ctl.fn, res.err, Len(ctl.args), 0)
  /\ resp' = IF ctl.fn.s = "out" THEN ctl.args[1] ELSE resp
  /\ UNCHANGED <<MGlobals, Runtimes, scopes, heap, stack, cur, script, runs, runErr>>

\* The closure's new scope made a child of the caller's active scope.
CallScopeParentDynamic(parentScope, currentScope) == currentScope

\* scope.New(parentScope): the parent of the scope an invocation runs in.
CallScopeParent(parentScope, currentScope) == parentScope

\* The closure restoring the scope as a block does.
FuncExitScopeParent(scs, active, currentScope) == scs[active].Parent

\* The deferred function of the closure: e.Runtime.Scope = currentScope
FuncExitScope(scs, active, currentScope) == currentScope

\* The closure's check requiring as many arguments as parameters.
ArityErrorExact(got, want) ==
  IF got # want THEN WrongNumberOfArgsError(got, want) ELSE NoErr

\* The closure's check of len(actualParams) against len(expectedParams.List).
ArityError(got, want) ==
  IF got > want THEN WrongNumberOfArgsError(got, want) ELSE NoErr

\* The closure of GenerateJSFunction up to its parameter loop: the frame's saved
\* is currentScope, and an arity error goes straight to the return.
JSFunction_Enter ==
  /\ ctl.m = "invoke"
  /\ ctl.fn.t = "jsfunc"
  /\ LET fn == heap[ctl.fn.n]
         got == Len(ctl.args)
         want == Len(fn.params)
     IN
     /\ scopes' = Append(scopes, New(CallScopeParent(fn.scope, Scope)))
     /\ Runtimes' = WithScope(Runtimes, cur, Len(scopes) + 1)
     /\ stack' = Push([f |-> "JSFunction", saved |-> Scope, fn |-> ctl.fn.n,
                       args |-> ctl.args, i |-> 0, phase |-> "params"])
     /\ ctl' = RetC(Undefined, ArityError(got, want))
     /\ ev' = Ev("EnterFunc", "", ctl.fn, NoErr, Scope, Len(scopes) + 1)
  /\ UNCHANGED <<MGlobals, heap, cur, script, runs, runErr, resp>>

\* The parameter loop: EvalBindingElement(el, value, false) for the next
\* parameter, or Eval(body) after the last.
JSFunction_Next ==
  /\ Returned("JSFunction")
  /\ Top.phase = "params"
  /\ ctl.err = NoErr
  /\ LET fn == heap[Top.fn] IN
     IF Top.i < Len(fn.params)
     THEN /\ stack' = Replace([Top EXCEPT !.i = @ + 1])
          /\ ctl' = BindC(fn.params[Top.i + 1],
                          IF Top.i < Len(Top.args) THEN Top.args[Top.i + 1] ELSE Undefined,
                          FALSE)
          /\ ev' = Did("NextParam")
     ELSE /\ stack' = Replace([Top EXCEPT !.phase = "body"])
          /\ ctl' = EvalC(fn.body)
          /\ ev' = Ev("Body", "", FuncV(Top.fn), NoErr, 0, 0)
  /\ UNCHANGED <<MGlobals, Runtimes, scopes, heap, cur, script, runs, runErr, resp>>

\* The closure returns: an arity error, a binding error, or Eval(body)'s result.
JSFunction_Return ==
  /\ Returned("JSFunction")
  /\ ctl.err # NoErr \/ Top.phase = "body"
  /\ Runtimes' = WithScope(Runtimes, cur, FuncExitScope(scopes, Scope, Top.saved))
  /\ stack' = Tail(stack)
  /\ scopes' = Collect(scopes, Runtimes', heap, stack')
  /\ ctl' = RetC(IF ctl.err = NoErr THEN ctl.val ELSE Undefined, ctl.err)
  /\ ev' = Ev("ExitFunc", Top.phase, FuncV(Top.fn), ctl.err, Top.saved, Scope)
  /\ UNCHANGED <<MGlobals, heap, cur, script, runs, runErr, resp>>

\* ------------------------------------------------------------------ heap
MapCell(m) == [t |-> "map", m |-> m]
SliceCell(a) == [t |-> "slice", a |-> a]

\* ------------------------------------------------------------------ assignment
\* EvalAssignment up to Eval(expr.Y).
EvalAssignment ==
  /\ Evaluating("BinaryExpr")
  /\ ctl.node.Op = "="
  /\ stack' = Push([f |-> "Assign", saved |-> 0, expr |-> ctl.node, phase |-> "Y",
                    y |-> Undefined, obj |-> Undefined])
  /\ ctl' = EvalC(ctl.node.Y)
  /\ ev' = Hooked(Did("Eval"), {"ThrottleEvaluation"})
  /\ UNCHANGED <<MGlobals, Runtimes, scopes, heap, cur, script, runs, runErr, resp>>

\* The scope EvalAssignment sets a bare name in: e.Runtime.Scope.
AssignScope(scs, active, name) == active

\* EvalAssignment after Eval(expr.Y): the switch on expr.X.
EvalAssignment_Y ==
  /\ Returned("Assign")
  /\ Top.phase = "Y"
  /\ LET x == Top.expr.X IN
     IF ctl.err # NoErr
     THEN /\ stack' = Tail(stack)
          /\ ctl' = RetC(Undefined, ctl.err)
          /\ ev' = Ev("Unwind", "", Undefined, ctl.err, 0, 0)
          /\ UNCHANGED scopes
     ELSE IF x.k = "Var"
     THEN LET target == AssignScope(scopes, Scope, x.Data)
              r == Set(scopes[target], x.Data, Binding(ctl.val, FALSE))
          IN
          /\ stack' = Tail(stack)
          /\ scopes' = [scopes EXCEPT ![target] = r.s]
          /\ ctl' = RetC(IF r.err = NoErr THEN ctl.val ELSE Undefined, r.err)
          /\ ev' = Ev("AssignVar", x.Data, ctl.val, r.err, Scope, target)
     ELSE IF x.k \in {"DotExpr", "IndexExpr"}
     THEN /\ stack' = Replace([Top EXCEPT !.phase = "X", !.y = ctl.val])
          /\ ctl' = EvalC(x.X)
          /\ ev' = Did("AssignTarget")
          /\ UNCHANGED scopes
     ELSE /\ stack' = Tail(stack)
          /\ ctl' = RetC(Undefined, NotImplementedError)
          /\ ev' = Ev("Return", "", Undefined, NotImplementedError, 0, 0)
          /\ UNCHANGED scopes
  /\ UNCHANGED <<MGlobals, Runtimes, heap, cur, script, runs, runErr, resp>>

\* x.y = v storing into a copy of the map.
AssignCopy(hp, obj, key, y) ==
  [hp |-> hp, err |-> IF obj.t = "map" THEN NoErr ELSE NotObjectError]

\* x.y = v refused when a constant binding holds the object.
AssignMemberConstDeep(hp, obj, key, y) ==
  IF obj.t # "map" THEN [hp |-> hp, err |-> NotObjectError]
  ELSE IF \E s \in DOMAIN scopes : \E n \in DOMAIN scopes[s].bindings :
            scopes[s].bindings[n].Constant /\ scopes[s].bindings[n].Item = obj
  THEN [hp |-> hp, err |-> MutatingConstantError]
  ELSE [hp |-> [hp EXCEPT ![obj.n] = MapCell(Put(@.m, key, y))], err |-> NoErr]

\* x.y = v on the value obj: the heap afterwards and the error.
AssignMember(hp, obj, key, y) ==
  IF obj.t = "map"
  THEN [hp |-> [hp EXCEPT ![obj.n] = MapCell(Put(@.m, key, y))], err |-> NoErr]
  ELSE [hp |-> hp, err |-> NotObjectError]

\* x[i] = v on the value obj: the heap afterwards and the error (Panic: a
\* division by zero or an index out of range at run time).
AssignIndex(hp, obj, idx, y) ==
  IF obj.t = "map"
  THEN [hp |-> [hp EXCEPT ![obj.n] = MapCell(Put(@.m, Sprint(hp, idx), y))], err |-> NoErr]
  ELSE IF obj.t = "slice"
  THEN LET a == hp[obj.n].a IN
       IF idx.t # "int" THEN [hp |-> hp, err |-> NonIntegerIndexError]
       ELSE IF idx.n < 0 /\ Len(a) = 0 THEN [hp |-> hp, err |-> Panic]
       ELSE LET i == IF idx.n < 0 THEN GoRem(idx.n, Len(a)) ELSE idx.n IN
            IF i + 1 > Len(a) THEN [hp |-> hp, err |-> IndexOutOfBoundsError]
            ELSE IF i < 0 THEN [hp |-> hp, err |-> Panic]
            ELSE [hp |-> [hp EXCEPT ![obj.n] = SliceCell([a EXCEPT ![i + 1] = y])],
                  err |-> NoErr]
  ELSE [hp |-> hp, err |-> NotObjectError]

\* EvalAssignment after Eval(v.X): the member is set, or the index is evaluated.
EvalAssignment_X ==
  /\ Returned("Assign")
  /\ Top.phase = "X"
  /\ LET x == Top.expr.X IN
     IF ctl.err # NoErr
     THEN /\ stack' = Tail(stack)
          /\ ctl' = RetC(Undefined, ctl.err)
          /\ ev' = Ev("Unwind", "", Undefined, ctl.err, 0, 0)
          /\ UNCHANGED heap
     ELSE IF x.k = "DotExpr"
     THEN LET r == AssignMember(heap, ctl.val, x.Y, Top.y) IN
          /\ stack' = Tail(stack)
          /\ heap' = r.hp
          /\ ctl' = RetC(IF r.err = NoErr THEN Top.y ELSE Undefined, r.err)
          /\ ev' = Ev("AssignMember", x.Y, Top.y, r.err, ctl.val.n, 0)
     ELSE /\ stack' = Replace([Top EXCEPT !.phase = "Index", !.obj = ctl.val])
          /\ ctl' = EvalC(x.Y)
          /\ ev' = Did("AssignIndexExpr")
          /\ UNCHANGED heap
  /\ UNCHANGED <<MGlobals, Runtimes, scopes, cur, script, runs, runErr, resp>>

\* EvalAssignment after Eval(v.Y) of an index expression.
EvalAssignment_Index ==
  /\ Returned("Assign")
  /\ Top.phase = "Index"
  /\ stack' = Tail(stack)
  /\ IF ctl.err # NoErr
     THEN /\ ctl' = RetC(Undefined, ctl.err)
          /\ ev' = Ev("Unwind", "", Undefined, ctl.err, 0, 0)
          /\ UNCHANGED heap
     ELSE LET r == AssignIndex(heap, Top.obj, ctl.val, Top.y) IN
          /\ heap' = r.hp
          /\ ctl' = RetC(IF r.err = NoErr THEN Top.y ELSE Undefined, r.err)
          /\ ev' = Ev("AssignIndex", Sprint(heap, ctl.val), Top.y, r.err, Top.obj.n, ctl.val.n)
  /\ UNCHANGED <<MGlobals, Runtimes, scopes, cur, script, runs, runErr, resp>>

\* ------------------------------------------------------------------ member and index reads
Builtins == {"reduce", "map", "forEach"}
\* The closure EvalDotExpr returns for reduce, map and forEach on receiver id.
BuiltinV(id, name) == Val("builtin", id, name)

\* x.y failing on a key the map does not hold.
ReadMemberMissingFails(hp, x, y) ==
  IF x.t = "map" /\ Found(hp[x.n].m, y)
  THEN [val |-> hp[x.n].m[y], err |-> NoErr]
  ELSE [val |-> Undefined, err |-> NotObjectError]

\* EvalDotExpr after Eval(expr.X): the value of x.y and the error.
ReadMember(hp, x, y) ==
  IF x.t = "map"
  THEN IF y \in Builtins THEN [val |-> BuiltinV(x.n, y), err |-> NoErr]
       ELSE [val |-> IF Found(hp[x.n].m, y) THEN hp[x.n].m[y] ELSE Undefined, err |-> NoErr]
  ELSE IF x.t = "slice" /\ y \in Builtins THEN [val |-> BuiltinV(x.n, y), err |-> NoErr]
  ELSE [val |-> Undefined, err |-> NotObjectError]

\* EvalIndexExpr after both operands: the value of x[y] and the error (Panic:
\* a division by zero or an index out of range at run time).
ReadIndex(hp, x, y) ==
  IF x.t = "map"
  THEN LET key == Sprint(hp, y) IN
       [val |-> IF Found(hp[x.n].m, key) THEN hp[x.n].m[key] ELSE Undefined, err |-> NoErr]
  ELSE IF x.t = "slice"
  THEN LET a == hp[x.n].a IN
       IF y.t # "int" THEN [val |-> Undefined, err |-> NonIntegerIndexError]
       ELSE IF y.n < 0 /\ Len(a) = 0 THEN [val |-> Undefined, err |-> Panic]
       ELSE LET idx == IF y.n < 0 THEN GoRem(y.n, Len(a)) ELSE y.n IN
            IF idx > Len(a) THEN [val |-> Undefined, err |-> IndexOutOfBoundsError]
            ELSE IF idx < 0 \/ idx = Len(a) THEN [val |-> Undefined, err |-> Panic]
            ELSE [val |-> a[idx + 1], err |-> NoErr]
  ELSE [val |-> Undefined, err |-> NotImplementedError]

EvalDotExpr ==
  /\ Evaluating("DotExpr")
  /\ stack' = Push([f |-> "Dot", saved |-> 0, expr |-> ctl.node])
  /\ ctl' = EvalC(ctl.node.X)
  /\ ev' = Hooked(Did("Eval"), {"ThrottleEvaluation"})
  /\ UNCHANGED <<MGlobals, Runtimes, scopes, heap, cur, script, runs, runErr, resp>>

EvalDotExpr_X ==
  /\ Returned("Dot")
  /\ stack' = Tail(stack)
  /\ IF ctl.err # NoErr
     THEN /\ ctl' = RetC(Undefined, ctl.err)
          /\ ev' = Ev("Unwind", "", Undefined, ctl.err, 0, 0)
     ELSE LET r == ReadMember(heap, ctl.val, Top.expr.Y) IN
          /\ ctl' = RetC(r.val, r.err)
          /\ ev' = Ev("ReadMember", Top.expr.Y, r.val, r.err, ctl.val.n, 0)
  /\ UNCHANGED <<MGlobals, Runtimes, scopes, heap, cur, script, runs, runErr, resp>>

EvalIndexExpr ==
  /\ Evaluating("IndexExpr")
  /\ stack' = Push([f |-> "Index", saved |-> 0, expr |-> ctl.node, phase |-> "X",
                    x |-> Undefined])
  /\ ctl' = EvalC(ctl.node.X)
  /\ ev' = Hooked(Did("Eval"), {"ThrottleEvaluation"})
  /\ UNCHANGED <<MGlobals, Runtimes, scopes, heap, cur, script, runs, runErr, resp>>

EvalIndexExpr_Next ==
  /\ Returned("Index")
  /\ IF ctl.err # NoErr
     THEN /\ stack' = Tail(stack)
          /\ ctl' = RetC(Undefined, ctl.err)
          /\ ev' = Ev("Unwind", "", Undefined, ctl.err, 0, 0)
     ELSE IF Top.phase = "X"
     THEN /\ stack' = Replace([Top EXCEPT !.phase = "Y", !.x = ctl.val])
          /\ ctl' = EvalC(Top.expr.Y)
          /\ ev' = Did("IndexOperand")
     ELSE LET r == ReadIndex(heap, Top.x, ctl.val) IN
          /\ stack' = Tail(stack)
          /\ ctl' = RetC(r.val, r.err)
          /\ ev' = Ev("ReadIndex", Sprint(heap, ctl.val), r.val, r.err, Top.x.n, ctl.val.n)
  /\ UNCHANGED <<MGlobals, Runtimes, scopes, heap, cur, script, runs, runErr, resp>>

\* ------------------------------------------------------------------ literals of objects and arrays
\* EvalObjectExpr: the frame's m is res, filled property by property.
EvalObjectExpr ==
  /\ Evaluating("ObjectExpr")
  /\ stack' = Push([f |-> "Object", saved |-> 0, expr |-> ctl.node, i |-> 0,
                    phase |-> "Value", name |-> "", m |-> EmptyMap])
  /\ ctl' = RetC(Undefined, NoErr)
  /\ ev' = Hooked(Did("Eval"), {"ThrottleEvaluation"})
  /\ UNCHANGED <<MGlobals, Runtimes, scopes, heap, cur, script, runs, runErr, resp>>

\* The loop of EvalObjectExpr: a computed name, then the value, of each property.
EvalObjectExpr_Next ==
  /\ Returned("Object")
  /\ LET list == Top.expr.List
         m == IF Top.phase = "Value" /\ Top.i > 0 THEN Put(Top.m, Top.name, ctl.val) ELSE Top.m
     IN
     IF ctl.err # NoErr
     THEN /\ stack' = Tail(stack)
          /\ ctl' = RetC(Undefined, ctl.err)
          /\ ev' = Ev("Unwind", "", Undefined, ctl.err, 0, 0)
          /\ UNCHANGED heap
     ELSE IF Top.phase = "Name"
     THEN /\ stack' = Replace([Top EXCEPT !.phase = "Value", !.name = Sprint(heap, ctl.val)])
          /\ ctl' = EvalC(list[Top.i].Value)
          /\ ev' = Did("PropertyValue")
          /\ UNCHANGED heap
     ELSE IF Top.i < Len(list)
     THEN LET prop == list[Top.i + 1] IN
          /\ IF prop.Computed.k # "nil"
             THEN /\ stack' = Replace([Top EXCEPT !.i = @ + 1, !.phase = "Name", !.m = m])
                  /\ ctl' = EvalC(prop.Computed)
             ELSE /\ stack' = Replace([Top EXCEPT !.i = @ + 1, !.name = prop.Name, !.m = m])
                  /\ ctl' = EvalC(prop.Value)
          /\ ev' = Did("Property")
          /\ UNCHANGED heap
     ELSE /\ stack' = Tail(stack)
          /\ heap' = Append(heap, MapCell(m))
          /\ ctl' = RetC(ObjV(Len(heap) + 1), NoErr)
          /\ ev' = Ev("NewObject", "", ObjV(Len(heap) + 1), NoErr, 0, 0)
  /\ UNCHANGED <<MGlobals, Runtimes, scopes, cur, script, runs, runErr, resp>>

EvalArrayExpr ==
  /\ Evaluating("ArrayExpr")
  /\ stack' = Push([f |-> "Array", saved |-> 0, expr |-> ctl.node, i |-> 0, a |-> << >>])
  /\ ctl' = RetC(Undefined, NoErr)
  /\ ev' = Hooked(Did("Eval"), {"ThrottleEvaluation"})
  /\ UNCHANGED <<MGlobals, Runtimes, scopes, heap, cur, script, runs, runErr, resp>>

\* The loop of EvalArrayExpr.
EvalArrayExpr_Next ==
  /\ Returned("Array")
  /\ LET list == Top.expr.List
         a == IF Top.i > 0 THEN Append(Top.a, ctl.val) ELSE Top.a
     IN
     IF ctl.err # NoErr
     THEN /\ stack' = Tail(stack)
          /\ ctl' = RetC(Undefined, ctl.err)
          /\ ev' = Ev("Unwind", "", Undefined, ctl.err, 0, 0)
          /\ UNCHANGED heap
     ELSE IF Top.i < Len(list)
     THEN /\ stack' = Replace([Top EXCEPT !.i = @ + 1, !.a = a])
          /\ ctl' = EvalC(list[Top.i + 1])
          /\ ev' = Did("Element")
          /\ UNCHANGED heap
     ELSE /\ stack' = Tail(stack)
          /\ heap' = Append(heap, SliceCell(a))
          /\ ctl' = RetC(AryV(Len(heap) + 1), NoErr)
          /\ ev' = Ev("NewArray", "", AryV(Len(heap) + 1), NoErr, 0, 0)
  /\ UNCHANGED <<MGlobals, Runtimes, scopes, cur, script, runs, runErr, resp>>

\* ------------------------------------------------------------------ if
\* EvalTruth. A map, slice or func made by the evaluator is never nil.
EvalTruth(v) ==
  CASE v.t = "nil" -> FALSE
    [] v.t \in {"int", "float64", "bool"} -> v.n # 0
    [] v.t = "string" -> v.s # ""
    [] OTHER -> TRUE

EvalIfStmt ==
  /\ Evaluating("IfStmt")
  /\ stack' = Push([f |-> "If", saved |-> 0, stmt |-> ctl.node, phase |-> "Cond"])
  /\ ctl' = EvalC(ctl.node.Cond)
  /\ ev' = Hooked(Did("Eval"), {"ThrottleEvaluation"})
  /\ UNCHANGED <<MGlobals, Runtimes, scopes, heap, cur, script, runs, runErr, resp>>

\* An if statement whose value is the value of the branch it took.
EvalIfStmt_NextBranchValue ==
  /\ Returned("If")
  /\ IF ctl.err = NoErr /\ Top.phase = "Cond"
     THEN /\ stack' = Replace([Top EXCEPT !.phase = "Branch"])
          /\ ctl' = EvalC(IF EvalTruth(ctl.val) THEN Top.stmt.Body ELSE Top.stmt.Else)
          /\ ev' = Did("Branch")
     ELSE /\ stack' = Tail(stack)
          /\ ctl' = RetC(IF ctl.err = NoErr THEN ctl.val ELSE Undefined, ctl.err)
          /\ ev' = Ev("Return", "", Undefined, ctl.err, 0, 0)
  /\ UNCHANGED <<MGlobals, Runtimes, scopes, heap, cur, script, runs, runErr, resp>>

\* EvalIfStmt after the condition (one branch is evaluated) and after the
\* branch (its value is dropped: Eval returns nil, e.EvalIfStmt(v)).
EvalIfStmt_Next ==
  /\ Returned("If")
  /\ IF ctl.err = NoErr /\ Top.phase = "Cond"
     THEN /\ stack' = Replace([Top EXCEPT !.phase = "Branch"])
          /\ ctl' = EvalC(IF EvalTruth(ctl.val) THEN Top.stmt.Body ELSE Top.stmt.Else)
          /\ ev' = Did("Branch")
     ELSE /\ stack' = Tail(stack)
          /\ ctl' = RetC(Undefined, ctl.err)
          /\ ev' = Ev("Return", "", Undefined, ctl.err, 0, 0)
  /\ UNCHANGED <<MGlobals, Runtimes, scopes, heap, cur, script, runs, runErr, resp>>

\* ------------------------------------------------------------------ for in
\* An iterator that leaves its scope active when it returns.
IterExitScopeKept(scs, active) == active

\* The deferred function of the iterator: e.Runtime.Scope = e.Runtime.Scope.Parent
IterExitScope(scs, active) == scs[active].Parent

\* EvalForInStmt up to Eval(stmt.Value). The frame's saved is the scope active on
\* entry, which the code does not keep.
EvalForInStmt ==
  /\ Evaluating("ForInStmt")
  /\ stack' = Push([f |-> "ForIn", saved |-> Scope, stmt |-> ctl.node, phase |-> "Value",
                    coll |-> Undefined, i |-> 0, n |-> 0, todo |-> {}, seen |-> {}])
  /\ ctl' = EvalC(ctl.node.Value)
  /\ ev' = Hooked(Did("Eval"), {"ThrottleEvaluation"})
  /\ UNCHANGED <<MGlobals, Runtimes, scopes, heap, cur, script, runs, runErr, resp>>

\* EvalForInStmt after Eval(stmt.Value): the switches on stmt.Init and on val.
\* A range over a slice fixes its length; a range over a map has to reach the
\* keys present now (todo) and may or may not reach keys added meanwhile.
EvalForInStmt_Value ==
  /\ Returned("ForIn")
  /\ Top.phase = "Value"
  /\ LET init == Top.stmt.Init
         err == IF ctl.err # NoErr THEN ctl.err
                ELSE IF init.k # "VarDecl" THEN NotImplementedError
                ELSE IF Len(init.List) # 1 THEN NotImplementedError
                ELSE IF ctl.val.t \notin {"map", "slice"} THEN NotImplementedError
                ELSE NoErr
     IN
     IF err # NoErr
     THEN /\ stack' = Tail(stack)
          /\ ctl' = RetC(Undefined, err)
          /\ ev' = Ev("Return", "", Undefined, err, 0, 0)
     ELSE /\ stack' = Replace([Top EXCEPT !.phase = "Loop", !.coll = ctl.val,
                  !.n = IF ctl.val.t = "slice" THEN Len(heap[ctl.val.n].a) ELSE 0,
                  !.todo = IF ctl.val.t = "map" THEN DOMAIN heap[ctl.val.n].m ELSE {}])
          /\ ctl' = RetC(Undefined, NoErr)
          /\ ev' = Did("Range")
  /\ UNCHANGED <<MGlobals, Runtimes, scopes, heap, cur, script, runs, runErr, resp>>

\* iterator(el) up to EvalBindingElement: the next element of the slice, or any
\* key of the map not yet produced.
EvalForInStmt_Iterate ==
  /\ Returned("ForIn")
  /\ Top.phase = "Loop"
  /\ ctl.err = NoErr
  /\ LET init == Top.stmt.Init IN
     \/ /\ Top.coll.t = "slice"
        /\ Top.i < Top.n
        /\ stack' = Replace([Top EXCEPT !.phase = "Bind", !.i = @ + 1])
        /\ ctl' = BindC(init.List[1], heap[Top.coll.n].a[Top.i + 1], init.TokenType = "const")
     \/ /\ Top.coll.t = "map"
        /\ \E key \in DOMAIN heap[Top.coll.n].m \ Top.seen :
             /\ stack' = Replace([Top EXCEPT !.phase = "Bind", !.i = @ + 1,
                                             !.seen = @ \cup {key}, !.todo = @ \ {key}])
             /\ ctl' = BindC(init.List[1], StrV(key), init.TokenType = "const")
  /\ scopes' = Append(scopes, New(Scope))
  /\ Runtimes' = WithScope(Runtimes, cur, Len(scopes) + 1)
  /\ ev' = Ev("EnterIteration", "", Undefined, NoErr, Scope, Len(scopes) + 1)
  /\ UNCHANGED <<MGlobals, heap, cur, script, runs, runErr, resp>>

\* iterator(el) after a successful EvalBindingElement: Eval(stmt.Body).
EvalForInStmt_Body ==
  /\ Returned("ForIn")
  /\ Top.phase = "Bind"
  /\ ctl.err = NoErr
  /\ stack' = Replace([Top EXCEPT !.phase = "Body"])
  /\ ctl' = EvalC(Top.stmt.Body)
  /\ ev' = Did("IterBody")
  /\ UNCHANGED <<MGlobals, Runtimes, scopes, heap, cur, script, runs, runErr, resp>>

\* iterator(el) returns, after a failed binding or after the body.
EvalForInStmt_IterReturn ==
  /\ Returned("ForIn")
  /\ Top.phase = "Body" \/ (Top.phase = "Bind" /\ ctl.err # NoErr)
  /\ Runtimes' = WithScope(Runtimes, cur, IterExitScope(scopes, Scope))
  /\ stack' = Replace([Top EXCEPT !.phase = "Loop"])
  /\ scopes' = Collect(scopes, Runtimes', heap, stack')
  /\ ctl' = RetC(Undefined, ctl.err)
  /\ ev' = Ev("ExitIteration", "", Undefined, ctl.err, Top.saved, Scope)
  /\ UNCHANGED <<MGlobals, heap, cur, script, runs, runErr, resp>>

\* EvalForInStmt returns: the iterator's error, or nil after the range.
EvalForInStmt_Return ==
  /\ Returned("ForIn")
  /\ Top.phase = "Loop"
  /\ \/ ctl.err # NoErr
     \/ Top.coll.t = "slice" /\ Top.i = Top.n
     \/ Top.coll.t = "map" /\ Top.todo = {}
  /\ stack' = Tail(stack)
  /\ ctl' = RetC(Undefined, ctl.err)
  /\ ev' = Ev("ExitForIn", "", Undefined, ctl.err, Top.saved, Scope)
  /\ UNCHANGED <<MGlobals, Runtimes, scopes, heap, cur, script, runs, runErr, resp>>

\* ------------------------------------------------------------------ panic
RECURSIVE RunDeferred(_, _, _)
\* Runtime.Scope after the deferred functions of the activations stk have run,
\* innermost first.
RunDeferred(scs, active, stk) ==
  IF stk = << >> THEN active
  ELSE LET fr == Head(stk)
           next == IF fr.f = "Block" THEN BlockExitScope(scs, active, Panic)
                   ELSE IF fr.f = "JSFunction" THEN FuncExitScope(scs, active, fr.saved)
                   ELSE IF fr.f = "ForIn" /\ fr.phase \in {"Bind", "Body"}
                   THEN IterExitScope(scs, active)
                   ELSE active
       IN RunDeferred(scs, next, Tail(stk))

\* A panic (nothing recovers) unwinds every activation, running the deferred
\* functions, and ends the host process.
GoPanic ==
  /\ Panicking
  /\ Runtimes' = WithScope(Runtimes, cur, RunDeferred(scopes, Scope, stack))
  /\ stack' = << >>
  /\ scopes' = Collect(scopes, Runtimes', heap, stack')
  /\ ctl' = [m |-> "panicked"]
  /\ ev' = Ev("GoPanic", "", Undefined, ctl.err, 0, 0)
  /\ UNCHANGED <<MGlobals, heap, cur, script, runs, runErr, resp>>

\* ------------------------------------------------------------------ reduce, map, forEach
\* AssertJSFunc: i.(func(...interface{}) (interface{}, error))
AssertJSFunc(v) == IF SigOf(v) = JSFuncSig THEN NoErr ELSE NotFunctionError

\* reduce giving its iterator the accumulator first.
IteratorArgsSumFirst(name, recv, key, val, sum) ==
  IF recv = "map"
  THEN IF name = "reduce" THEN <<sum, StrV(key), val>> ELSE <<StrV(key), val>>
  ELSE IF name = "reduce" THEN <<sum, val>> ELSE <<val>>

\* The arguments the closure gives its iterator for one entry.
IteratorArgs(name, recv, key, val, sum) ==
  IF recv = "map"
  THEN IF name = "reduce" THEN <<StrV(key), val, sum>> ELSE <<StrV(key), val>>
  ELSE IF name = "reduce" THEN <<val, sum>> ELSE <<val>>

\* The closure EvalDotExpr returned is entered: AssertJSFunc, then its loop.
\* The frame's results is what iterator(...) returned so far, call by call,
\* which the code does not keep.
Builtin_Enter ==
  /\ ctl.m = "invoke"
  /\ ctl.fn.t = "builtin"
  /\ LET err == AssertJSFunc(ctl.args[1])
         cell == heap[ctl.fn.n]
     IN
     IF err # NoErr
     THEN /\ ctl' = RetC(Undefined, err)
          /\ ev' = Ev("BuiltinEnter", ctl.fn.s, ctl.args[1], err, ctl.fn.n, 0)
          /\ UNCHANGED stack
     ELSE /\ stack' = Push([f |-> "Builtin", saved |-> 0, name |-> ctl.fn.s, recv |-> ctl.fn.n,
                  iterator |-> ctl.args[1], phase |-> "Loop",
                  sum |-> IF ctl.fn.s = "reduce" THEN ctl.args[2] ELSE Undefined,
                  i |-> 0, n |-> IF cell.t = "slice" THEN Len(cell.a) ELSE 0,
                  todo |-> IF cell.t = "map" THEN DOMAIN cell.m ELSE {}, seen |-> {},
                  m |-> EmptyMap, a |-> << >>, results |-> << >>])
          /\ ctl' = RetC(Undefined, NoErr)
          /\ ev' = Ev("BuiltinEnter", ctl.fn.s, ctl.args[1], NoErr, ctl.fn.n, 0)
  /\ UNCHANGED <<MGlobals, Runtimes, scopes, heap, cur, script, runs, runErr, resp>>

\* The loop calls iterator(...) for the next element or for any key not yet produced.
Builtin_Iterate ==
  /\ Returned("Builtin")
  /\ Top.phase = "Loop"
  /\ ctl.err = NoErr
  /\ LET cell == heap[Top.recv] IN
     \/ /\ cell.t = "slice"
        /\ Top.i < Top.n
        /\ stack' = Replace([Top EXCEPT !.phase = "Call", !.i = @ + 1])
        /\ ctl' = InvokeC(Top.iterator,
                          IteratorArgs(Top.name, "slice", "", cell.a[Top.i + 1], Top.sum))
     \/ /\ cell.t = "map"
        /\ \E key \in DOMAIN cell.m \ Top.seen :
             /\ stack' = Replace([Top EXCEPT !.phase = "Call", !.i = @ + 1,
                                             !.seen = @ \cup {key}, !.todo = @ \ {key}])
             /\ ctl' = InvokeC(Top.iterator,
                               IteratorArgs(Top.name, "map", key, cell.m[key], Top.sum))
  /\ ev' = Ev("Iterate", Top.name, Top.iterator, NoErr, Top.recv, 0)
  /\ UNCHANGED <<MGlobals, Runtimes, scopes, heap, cur, script, runs, runErr, resp>>

\* The closure taking the first two of more than two values as the pair.
PairErrorAtLeastTwo(hp, mapped) ==
  IF mapped.t = "slice" /\ Len(hp[mapped.n].a) >= 2 THEN NoErr ELSE NotPairError

\* The error of a map callback's result that is not a slice of two values.
PairError(hp, mapped) ==
  IF mapped.t = "slice" /\ Len(hp[mapped.n].a) = 2 THEN NoErr ELSE NotPairError

\* The loop after iterator(...) returned: the result is kept as the closure says.
Builtin_Result ==
  /\ Returned("Builtin")
  /\ Top.phase = "Call"
  /\ LET onMap == heap[Top.recv].t = "map"
         err == IF ctl.err # NoErr THEN ctl.err
                ELSE IF Top.name = "map" /\ onMap THEN PairError(heap, ctl.val)
                ELSE NoErr
     IN
     /\ stack' = Replace([Top EXCEPT
           !.phase = "Loop",
           !.sum = IF err = NoErr /\ Top.name = "reduce" THEN ctl.val ELSE @,
           !.a = IF err = NoErr /\ Top.name = "map" /\ ~onMap THEN Append(@, ctl.val) ELSE @,
           !.m = IF err = NoErr /\ Top.name = "map" /\ onMap
                 THEN Put(@, Sprint(heap, heap[ctl.val.n].a[1]), heap[ctl.val.n].a[2])
                 ELSE @,
           !.results = IF ctl.err = NoErr THEN Append(@, ctl.val) ELSE @])
     /\ ctl' = RetC(Undefined, err)
     /\ ev' = Ev("Iterated", Top.name, ctl.val, err, Top.recv, 0)
  /\ UNCHANGED <<MGlobals, Runtimes, scopes, heap, cur, script, runs, runErr, resp>>

\* The closure returns: the first error, or its result after the range.
Builtin_Return ==
  /\ Returned("Builtin")
  /\ Top.phase = "Loop"
  /\ LET cell == heap[Top.recv] IN
     \/ ctl.err # NoErr
     \/ cell.t = "slice" /\ Top.i = Top.n
     \/ cell.t = "map" /\ Top.todo = {}
  /\ stack' = Tail(stack)
  /\ IF ctl.err # NoErr
     THEN /\ ctl' = RetC(Undefined, ctl.err)
          /\ UNCHANGED heap
     ELSE IF Top.name = "reduce"
     THEN /\ ctl' = RetC(Top.sum, NoErr)
          /\ UNCHANGED heap
     ELSE IF Top.name = "forEach"
     THEN /\ ctl' = RetC(Undefined, NoErr)
          /\ UNCHANGED heap
     ELSE /\ heap' = Append(heap, IF heap[Top.recv].t = "map" THEN MapCell(Top.m)
                                   ELSE SliceCell(Top.a))
          /\ ctl' = RetC(Val(heap[Top.recv].t, Len(heap) + 1, ""), NoErr)
  /\ ev' = Ev("BuiltinReturn", Top.name, ctl'.val, ctl.err, Top.recv, 0)
  /\ UNCHANGED <<MGlobals, Runtimes, scopes, cur, script, runs, runErr, resp>>

\* ------------------------------------------------------------------ operators
\* The error keeps both operands (its X and Y).
BinaryOpNotImplementedError(x, y) == Err("BinaryOpNotImplementedError", x, y)
IsNumber(v) == v.t \in {"int", "float64"}
\* float64(x) for an int, in tenths.
Tenths(v) == IF v.t = "int" THEN v.n * 10 ELSE v.n
\* A result that needs no new storage.
Plain(hp, val, err) == [val |-> val, err |-> err, hp |-> hp]
\* A result that is a new slice.
NewSlice(hp, a) == [val |-> AryV(Len(hp) + 1), err |-> NoErr, hp |-> Append(hp, SliceCell(a))]

RECURSIVE Repeat(_, _)
Repeat(s, n) == IF n <= 0 THEN "" ELSE s \o Repeat(s, n - 1)
RECURSIVE RepeatSeq(_, _)
RepeatSeq(a, n) == IF n <= 0 THEN << >> ELSE a \o RepeatSeq(a, n - 1)

\* Add on two numbers giving an int whatever the operands are.
AddIntegerOnly(hp, x, y) ==
  IF IsNumber(x) /\ IsNumber(y)
  THEN Plain(hp, IntV((Tenths(x) + Tenths(y)) \div 10), NoErr)
  ELSE Plain(hp, Undefined, BinaryOpNotImplementedError(x, y))

Add(hp, x, y) ==
  IF x.t = "int" /\ y.t = "int" THEN Plain(hp, IntV(x.n + y.n), NoErr)
  ELSE IF IsNumber(x) /\ IsNumber(y) THEN Plain(hp, FloatV(Tenths(x) + Tenths(y)), NoErr)
  ELSE IF x.t = "string" /\ y.t \in {"int", "float64", "string"}
  THEN Plain(hp, StrV(x.s \o Sprint(hp, y)), NoErr)
  ELSE IF x.t = "slice" /\ y.t = "slice" THEN NewSlice(hp, hp[x.n].a \o hp[y.n].a)
  ELSE Plain(hp, Undefined, BinaryOpNotImplementedError(x, y))

\* Go's x / y on two int: the quotient truncated toward zero.
GoQuo(x, y) ==
  LET q == (IF x < 0 THEN -x ELSE x) \div (IF y < 0 THEN -y ELSE y)
  IN IF (x < 0) # (y < 0) THEN -q ELSE q

\* Div: an int divided by the int 0 panics; a float64 quotient is kept to the
\* tenth, and is an infinity or NaN when the divisor is 0.
Div(hp, x, y) ==
  IF x.t = "int" /\ y.t = "int"
  THEN IF y.n = 0 THEN Plain(hp, Undefined, Panic)
       ELSE Plain(hp, IntV(GoQuo(x.n, y.n)), NoErr)
  ELSE IF IsNumber(x) /\ IsNumber(y)
  THEN IF y.n = 0
       THEN Plain(hp, Val("float64", 0, IF x.n > 0 THEN "+Inf" ELSE IF x.n < 0 THEN "-Inf" ELSE "NaN"),
                  NoErr)
       ELSE Plain(hp, FloatV(GoQuo(Tenths(x) * 10, Tenths(y))), NoErr)
  ELSE Plain(hp, Undefined, BinaryOpNotImplementedError(x, y))

Sub(hp, x, y) ==
  IF x.t = "int" /\ y.t = "int" THEN Plain(hp, IntV(x.n - y.n), NoErr)
  ELSE IF IsNumber(x) /\ IsNumber(y) THEN Plain(hp, FloatV(Tenths(x) - Tenths(y)), NoErr)
  ELSE Plain(hp, Undefined, BinaryOpNotImplementedError(x, y))

\* The product of two float64 is kept to the tenth.
Mul(hp, x, y) ==
  IF x.t = "int" /\ y.t = "int" THEN Plain(hp, IntV(x.n * y.n), NoErr)
  ELSE IF IsNumber(x) /\ IsNumber(y)
  THEN Plain(hp, FloatV((Tenths(x) * Tenths(y)) \div 10), NoErr)
  ELSE IF x.t = "string" /\ y.t = "int" THEN Plain(hp, StrV(Repeat(x.s, y.n)), NoErr)
  ELSE IF x.t = "slice" /\ y.t = "int"
  THEN IF Len(hp[x.n].a) * y.n < 0 THEN Plain(hp, Undefined, Panic)
       ELSE NewSlice(hp, RepeatSeq(hp[x.n].a, y.n))
  ELSE Plain(hp, Undefined, BinaryOpNotImplementedError(x, y))

EqEqComparison(hp, x, y) == Plain(hp, BoolV(Sprint(hp, x) = Sprint(hp, y)), NoErr)

\* reflect.Value.Kind of a value.
Kind(v) ==
  CASE v.t = "nil" -> "Invalid"
    [] v.t \in {"jsfunc", "native", "builtin"} -> "Func"
    [] OTHER -> v.t
\* reflect.Value.Pointer of a func (its code pointer: one per function literal
\* or host function), of a map, and of a slice (its first element; an empty
\* slice made by make has the address every zero-size allocation has).
Pointer(hp, v) ==
  CASE v.t = "jsfunc" -> Val("code", 0, "GenerateJSFunction")
    [] v.t = "native" -> Val("code", 0, v.s)
    [] v.t = "builtin" -> Val("code", 0, hp[v.n].t \o "." \o v.s)
    [] v.t = "slice" -> IF hp[v.n].a = << >> THEN Val("zerobase", 0, "") ELSE Val("heap", v.n, "")
    [] OTHER -> Val("heap", v.n, "")

\* refX.Type() panics on the zero reflect.Value of a nil interface.
EqEqEqComparison(hp, x, y) ==
  IF Kind(x) # Kind(y) THEN Plain(hp, BoolV(FALSE), NoErr)
  ELSE IF x.t = "nil" THEN Plain(hp, Undefined, Panic)
  ELSE IF Kind(x) = "Func" /\ SigOf(x) # SigOf(y) THEN Plain(hp, BoolV(FALSE), NoErr)
  ELSE IF Kind(x) \in {"bool", "int", "float64"} THEN Plain(hp, BoolV(x.n = y.n), NoErr)
  ELSE IF Kind(x) \in {"Func", "map", "slice"}
  THEN Plain(hp, BoolV(Pointer(hp, x) = Pointer(hp, y)), NoErr)
  ELSE Plain(hp, BoolV(x = y), NoErr)

\* The switch on expr.Op of EvalBinaryExpr.
BinaryOp(hp, op, x, y) ==
  CASE op = "==" -> EqEqComparison(hp, x, y)
    [] op = "===" -> EqEqEqComparison(hp, x, y)
    [] op = "+" -> Add(hp, x, y)
    [] op = "-" -> Sub(hp, x, y)
    [] op = "*" -> Mul(hp, x, y)
    [] OTHER -> Plain(hp, Undefined, NotImplementedError)

\* EvalBinaryExpr of an operator other than "=", up to Eval(expr.X).
EvalBinaryExpr ==
  /\ Evaluating("BinaryExpr")
  /\ ctl.node.Op # "="
  /\ stack' = Push([f |-> "Binary", saved |-> 0, expr |-> ctl.node, phase |-> "X",
                    x |-> Undefined])
  /\ ctl' = EvalC(ctl.node.X)
  /\ ev' = Hooked(Did("Eval"), {"ThrottleEvaluation"})
  /\ UNCHANGED <<MGlobals, Runtimes, scopes, heap, cur, script, runs, runErr, resp>>

\* EvalBinaryExpr after an operand: the other operand, or the operator.
EvalBinaryExpr_Next ==
  /\ Returned("Binary")
  /\ IF ctl.err # NoErr
     THEN /\ stack' = Tail(stack)
          /\ ctl' = RetC(Undefined, ctl.err)
          /\ ev' = Ev("Unwind", "", Undefined, ctl.err, 0, 0)
          /\ UNCHANGED heap
     ELSE IF Top.phase = "X"
     THEN /\ stack' = Replace([Top EXCEPT !.phase = "Y", !.x = ctl.val])
          /\ ctl' = EvalC(Top.expr.Y)
          /\ ev' = Did("Operand")
          /\ UNCHANGED heap
     ELSE LET r == BinaryOp(heap, Top.expr.Op, Top.x, ctl.val) IN
          /\ stack' = Tail(stack)
          /\ heap' = r.hp
          /\ ctl' = RetC(r.val, r.err)
          /\ ev' = Ev("BinaryOp", Top.expr.Op, r.val, r.err, 0, 0)
  /\ UNCHANGED <<MGlobals, Runtimes, scopes, cur, script, runs, runErr, resp>>

\* ------------------------------------------------------------------ specification
Next ==
  \/ NewRuntime
  \/ SetEngineGlobal
  \/ SetRuntimeGlobal
  \/ Runtime_Lookup
  \/ Runtime_Call
  \/ Run
  \/ Run_Return
  \/ GoPanic
  \/ Eval_Nil
  \/ Eval_NotImplemented
  \/ Eval_ExprStmt
  \/ EvalReturnStmt
  \/ EvalLiteralExpr
  \/ EvalVar
  \/ EvalBlockStmt
  \/ EvalBlockStmt_Next
  \/ EvalBlockStmt_Return
  \/ EvalBindingElement
  \/ EvalBindingElement_Default
  \/ EvalVarDecl
  \/ EvalVarDecl_Next
  \/ EvalFuncDecl
  \/ EvalArrowFunc
  \/ EvalCallExpr
  \/ EvalCallExpr_Next
  \/ Call
  \/ Native
  \/ JSFunction_Enter
  \/ JSFunction_Next
  \/ JSFunction_Return
  \/ EvalAssignment
  \/ EvalAssignment_Y
  \/ EvalAssignment_X
  \/ EvalAssignment_Index
  \/ EvalDotExpr
  \/ EvalDotExpr_X
  \/ EvalIndexExpr
  \/ EvalIndexExpr_Next
  \/ EvalObjectExpr
  \/ EvalObjectExpr_Next
  \/ EvalArrayExpr
  \/ EvalArrayExpr_Next
  \/ EvalIfStmt
  \/ EvalIfStmt_Next
  \/ EvalForInStmt
  \/ EvalForInStmt_Value
  \/ EvalForInStmt_Iterate
  \/ EvalForInStmt_Body
  \/ EvalForInStmt_IterReturn
  \/ EvalForInStmt_Return
  \/ Builtin_Enter
  \/ Builtin_Iterate
  \/ Builtin_Result
  \/ Builtin_Return
  \/ EvalBinaryExpr
  \/ EvalBinaryExpr_Next

Spec == Init /\ [][Next]_vars

\* ------------------------------------------------------------------ scope.S on its own
\* The names, items and scope a host can hand to S.Set.
SetNames == {"x", "y"}
SetItems == {Undefined, IntV(1), IntV(2)}

\* A host that holds one scope and calls Set on it, any number of times.
SetInit ==
  /\ MGlobals = EmptyMap
  /\ Runtimes = << >>
  /\ scopes = <<New(0)>>
  /\ heap = << >>
  /\ stack = << >>
  /\ ctl = Idle
  /\ cur = 0
  /\ script = 0
  /\ runs = 0
  /\ runErr = NoErr
  /\ resp = Undefined
  /\ ev = Did("New")

\* s.Set(name, &Binding{item, constant}); ev keeps the call and what it returned.
S_Set ==
  /\ \E name \in SetNames, item \in SetItems, constant \in BOOLEAN :
       LET r == Set(scopes[1], name, Binding(item, constant)) IN
         /\ scopes' = <<r.s>>
         /\ ev' = Ev("Set", name, item, r.err, IF constant THEN 1 ELSE 0, 0)
  /\ UNCHANGED <<MGlobals, Runtimes, heap, stack, ctl, cur, script, runs, runErr, resp>>

SetSpec == SetInit /\ [][S_Set]_vars

\* S.Get: the binding under name, nil (here: no binding) when there is none.
Get(s, name) == IF Found(s.bindings, name) THEN <<s.bindings[name]>> ELSE << >>

\* ------------------------------------------------------------------ expressions on their own
\* What a program has built when it evaluates one expression: two Objects with
\* the same contents, an Object with a key named like a built-in, two Arrays
\* with the same contents, two empty Arrays, and two functions.
OpHeap == <<
  MapCell([n \in {"k"} |-> IntV(1)]),
  MapCell([n \in {"k"} |-> IntV(1)]),
  MapCell([n \in {"k", "map"} |-> IntV(2)]),
  SliceCell(<<IntV(0), IntV(2), IntV(4)>>),
  SliceCell(<<IntV(0), IntV(2), IntV(4)>>),
  SliceCell(<< >>),
  SliceCell(<< >>),
  JSFunction(1, << >>, BlockStmt(<< >>)),
  JSFunction(1, << >>, BlockStmt(<< >>))
>>

\* The values its operands can have: every kind of value, the references into
\* OpHeap, and a function of the host.
OpValues ==
  {Undefined, BoolV(TRUE), BoolV(FALSE), StrV(""), StrV("k"), StrV("1 "), NativeV("out")}
    \cup {IntV(n) : n \in -4..4}
    \cup {FloatV(n) : n \in {-15, 0, 10, 20, 21}}
    \cup {Val(OpHeap[id].t, id, "") : id \in DOMAIN OpHeap}

OpInit ==
  /\ MGlobals = EmptyMap
  /\ Runtimes = << >>
  /\ scopes = <<New(0)>>
  /\ heap = OpHeap
  /\ stack = << >>
  /\ ctl = Idle
  /\ cur = 0
  /\ script = 0
  /\ runs = 0
  /\ runErr = NoErr
  /\ resp = Undefined
  /\ ev = Did("New")

\* Each step below is the one expression of the program, its operands already
\* evaluated; ev keeps the operands and what the step returns.

\* EvalBinaryExpr after both operands: the switch on expr.Op.
EvalBinaryExpr_Op ==
  /\ ctl.m = "idle"
  /\ \E op \in {"==", "===", "+", "-", "*", "/"}, x \in OpValues, y \in OpValues :
       LET r == BinaryOp(heap, op, x, y) IN
         /\ ctl' = RetC(r.val, r.err)
         /\ heap' = r.hp
         /\ ev' = Ev("BinaryOp", op, r.val, r.err, x, y)
  /\ UNCHANGED <<MGlobals, Runtimes, scopes, stack, cur, script, runs, runErr, resp>>

\* EvalIndexExpr after both operands.
EvalIndexExpr_Op ==
  /\ ctl.m = "idle"
  /\ \E x \in OpValues, y \in OpValues :
       LET r == ReadIndex(heap, x, y) IN
         /\ ctl' = RetC(r.val, r.err)
         /\ UNCHANGED heap
         /\ ev' = Ev("ReadIndex", "", r.val, r.err, x, y)
  /\ UNCHANGED <<MGlobals, Runtimes, scopes, stack, cur, script, runs, runErr, resp>>

\* EvalDotExpr after Eval(expr.X).
EvalDotExpr_Op ==
  /\ ctl.m = "idle"
  /\ \E x \in OpValues, name \in {"k", "z", "map", "forEach"} :
       LET r == ReadMember(heap, x, name) IN
         /\ ctl' = RetC(r.val, r.err)
         /\ UNCHANGED heap
         /\ ev' = Ev("ReadMember", name, r.val, r.err, x, 0)
  /\ UNCHANGED <<MGlobals, Runtimes, scopes, stack, cur, script, runs, runErr, resp>>

\* EvalAssignment to x[idx] after its three operands.
EvalAssignment_IndexOp ==
  /\ ctl.m = "idle"
  /\ \E obj \in OpValues, idx \in OpValues, y \in {IntV(6), Undefined} :
       LET r == AssignIndex(heap, obj, idx, y) IN
         /\ ctl' = RetC(IF r.err = NoErr THEN y ELSE Undefined, r.err)
         /\ heap' = r.hp
         /\ ev' = Ev("AssignIndex", "", y, r.err, obj, idx)
  /\ UNCHANGED <<MGlobals, Runtimes, scopes, stack, cur, script, runs, runErr, resp>>

\* EvalAssignment to x.name after its two operands.
EvalAssignment_DotOp ==
  /\ ctl.m = "idle"
  /\ \E obj \in OpValues, name \in {"k", "z", "map"}, y \in {IntV(6), Undefined} :
       LET r == AssignMember(heap, obj, name, y) IN
         /\ ctl' = RetC(IF r.err = NoErr THEN y ELSE Undefined, r.err)
         /\ heap' = r.hp
         /\ ev' = Ev("AssignMember", name, y, r.err, obj, 0)
  /\ UNCHANGED <<MGlobals, Runtimes, scopes, stack, cur, script, runs, runErr, resp>>

OpNext ==
  \/ EvalBinaryExpr_Op
  \/ EvalIndexExpr_Op
  \/ EvalDotExpr_Op
  \/ EvalAssignment_IndexOp
  \/ EvalAssignment_DotOp

OpSpec == OpInit /\ [][OpNext]_vars

\* ------------------------------------------------------------------ the Engine on its own
\* A host that spawns Runtimes, fills the two Globals tables and resolves
\* names, without running a program.
\* M.NewRuntime
M_NewRuntime ==
  /\ Len(Runtimes) < MaxHostRuntimes
  /\ scopes' = Append(scopes, New(0))
  /\ Runtimes' = Append(Runtimes, [Globals |-> EmptyMap, Scope |-> Len(scopes) + 1])
  /\ ev' = Ev("NewRuntime", "", Undefined, NoErr, Len(Runtimes) + 1, 0)
  /\ UNCHANGED <<MGlobals, heap, stack, ctl, cur, script, runs, runErr, resp>>

\* m.Globals[name] = item
M_SetGlobal ==
  /\ \E name \in HostNames, item \in HostItems :
       /\ MGlobals' = Put(MGlobals, name, item)
       /\ ev' = Ev("SetEngineGlobal", name, item, NoErr, 0, 0)
  /\ UNCHANGED <<Runtimes, scopes, heap, stack, ctl, cur, script, runs, runErr, resp>>

\* r.Globals[name] = item
Runtime_SetGlobal ==
  /\ \E r \in DOMAIN Runtimes, name \in HostNames, item \in HostItems :
       /\ Runtimes' = [Runtimes EXCEPT ![r].Globals = Put(@, name, item)]
       /\ ev' = Ev("SetRuntimeGlobal", name, item, NoErr, r, 0)
  /\ UNCHANGED <<MGlobals, scopes, heap, stack, ctl, cur, script, runs, runErr, resp>>

HostNext ==
  \/ M_NewRuntime
  \/ M_SetGlobal
  \/ Runtime_SetGlobal
  \/ Runtime_Lookup

HostSpec == Init /\ [][HostNext]_vars

\* ------------------------------------------------------------------ claims
\* C1: Set on a name whose binding in the scope is constant returns
\* MutatingConstantError and leaves the bindings as they were (Get returns the
\* old binding); any other Set stores the binding under the name, changes no
\* other name, and returns no error.
C1_SetRejectsConstant ==
  [][ev'.op = "Set" =>
       LET old == scopes[1]
           new == scopes'[1]
           name == ev'.name
       IN
       IF Get(old, name) # << >> /\ Get(old, name)[1].Constant
       THEN /\ ev'.err = MutatingConstantError
            /\ new = old
            /\ Get(new, name) = Get(old, name)
       ELSE /\ ev'.err = NoErr
            /\ Get(new, name) = <<Binding(ev'.val, ev'.a = 1)>>
            /\ \A other \in SetNames \ {name} : Get(new, other) = Get(old, other)]_vars

\* A Set was refused on a constant binding, which the scope still holds.
C1_Witness ==
  /\ ev.op = "Set"
  /\ ev.err = MutatingConstantError
  /\ Get(scopes[1], ev.name) # << >>
  /\ Get(scopes[1], ev.name)[1].Constant

\* The scopes from the active scope of the running Runtime outwards that bind name.
Owners(name) ==
  {s \in DOMAIN scopes : InChain(scopes, Scope, s) /\ Found(scopes[s].bindings, name)}
\* The innermost of them: the one every other owner is an ancestor of.
Nearest(name) == CHOOSE s \in Owners(name) : \A o \in Owners(name) : InChain(scopes, s, o)

\* C2: Lookup returns the item of the innermost scope of the chain that binds
\* the name (an Undefined item too), else the Runtime's global, else the
\* Engine's global, and fails with NotDeclaredError only when none has the name.
C2_LookupOrder ==
  ev.op = "Lookup" =>
    IF Owners(ev.name) # {}
    THEN ev.err = NoErr /\ ev.val = scopes[Nearest(ev.name)].bindings[ev.name].Item
    ELSE IF ev.name \in DOMAIN Runtimes[cur].Globals
    THEN ev.err = NoErr /\ ev.val = Runtimes[cur].Globals[ev.name]
    ELSE IF ev.name \in DOMAIN MGlobals
    THEN ev.err = NoErr /\ ev.val = MGlobals[ev.name]
    ELSE ev.err = NotDeclaredError /\ ev.val = Undefined

\* A lookup resolved to a binding of Undefined in the scope chain although the
\* Engine's globals hold a value under the name.
C2_Witness ==
  /\ ev.op = "Lookup"
  /\ ev.val = Undefined
  /\ ev.err = NoErr
  /\ Owners(ev.name) # {}
  /\ ev.name \in DOMAIN MGlobals
  /\ MGlobals[ev.name] # Undefined

\* C3: when an invocation of an interpreted function returns (a value, an
\* arity error, an error from binding a parameter, an error from the body),
\* Runtime.Scope is the scope that was active just before the invocation.
C3_CallRestoresScope ==
  ev.op = "ExitFunc" => Scope = ev.a

\* An invocation made from a scope other than the function's own definition
\* scope returned the error of a parameter default.
C3_Witness ==
  /\ ev.op = "ExitFunc"
  /\ ev.name = "params"
  /\ ev.err = NotDeclaredError
  /\ heap[ev.val.n].scope # ev.a
  /\ Scope = ev.a

\* C4: a block and a for-in iteration enter exactly one new, empty child of the
\* scope active on entry, and when they return, with or without an error, the
\* active scope is the entry scope again; so it is after a whole for-in statement.
C4_BlockScopeDiscipline ==
  /\ ev.op \in {"EnterBlock", "EnterIteration"} =>
       /\ Scope = ev.b
       /\ ev.b = Len(scopes)
       /\ scopes[ev.b].Parent = ev.a
       /\ ev.b # ev.a
  /\ ev.op \in {"ExitBlock", "ExitIteration", "ExitForIn"} => Scope = ev.a

\* A block nested in another block returned an error.
C4_Witness ==
  /\ ev.op = "ExitBlock"
  /\ ev.err # NoErr
  /\ stack # << >>
  /\ Top.f = "Block"
  /\ Scope = ev.a

\* C5: an assignment to a bare name that a scope of the chain already binds
\* changes the binding of the innermost such scope, and fails with
\* MutatingConstantError when that binding is constant.
C5_AssignRebindsOwner ==
  [][ev'.op = "AssignVar" =>
       LET name == ev'.name
           own == WalkScopes(scopes, Scope, name)
       IN
       own # 0 =>
         IF scopes[own].bindings[name].Constant
         THEN ev'.err = MutatingConstantError /\ scopes' = scopes
         ELSE /\ ev'.err = NoErr
              /\ scopes'[own].bindings[name].Item = ev'.val
              /\ WalkScopes(scopes', Scope', name) = own]_vars

\* C6: an invocation of an interpreted function runs in a new, empty scope
\* whose parent is the scope the function value was created in, whatever scope
\* the caller is in.
C6_LexicalScope ==
  ev.op = "EnterFunc" =>
    /\ Scope = ev.b
    /\ ev.b = Len(scopes)
    /\ ev.b # ev.a
    /\ scopes[ev.b].bindings = NoBindings
    /\ scopes[ev.b].Parent = heap[ev.val.n].scope

\* A function is entered from a scope that is not its definition scope, and
\* the two bind the same name to different values.
C6_Witness ==
  /\ ev.op = "EnterFunc"
  /\ heap[ev.val.n].scope # ev.a
  /\ \E name \in DOMAIN scopes[ev.a].bindings :
       /\ Found(scopes[heap[ev.val.n].scope].bindings, name)
       /\ scopes[heap[ev.val.n].scope].bindings[name].Item # scopes[ev.a].bindings[name].Item
       /\ Lookup(scopes, Runtimes[cur], MGlobals, name).item
            = scopes[heap[ev.val.n].scope].bindings[name].Item

\* The value of a parameter's default expression once the parameters are bound.
DefaultValue(el) ==
  IF el.Default.k = "LiteralExpr" THEN LiteralValue(el.Default).val
  ELSE IF el.Default.k = "Var"
  THEN Lookup(scopes, Runtimes[cur], MGlobals, el.Default.Data).item
  ELSE Undefined
\* The parameters whose default this can tell the value of.
PlainParam(el) ==
  el.Binding.k = "Var" /\ el.Default.k \in {"nil", "LiteralExpr", "Var"}

\* C7 as stated: more arguments than parameters is WrongNumberOfArgsError
\* (Got, Want) and the body is not evaluated; otherwise, when the body starts,
\* parameter i holds argument i for every argument passed, the value of its
\* default (Undefined without one) beyond them, and no binding is constant.
C7_ArityAndBinding ==
  /\ ev.op = "EnterFunc" =>
       LET k == Len(Top.args)
           n == Len(heap[Top.fn].params)
       IN ctl.err = IF k > n THEN WrongNumberOfArgsError(k, n) ELSE NoErr
  /\ ev.op = "Body" =>
       LET k == Len(Top.args)
           params == heap[Top.fn].params
       IN
       /\ k <= Len(params)
       /\ \A i \in DOMAIN params :
            PlainParam(params[i]) =>
              /\ Found(scopes[Scope].bindings, params[i].Binding.Data)
              /\ ~scopes[Scope].bindings[params[i].Binding.Data].Constant
              /\ scopes[Scope].bindings[params[i].Binding.Data].Item
                   = IF i <= k THEN Top.args[i] ELSE DefaultValue(params[i])

\* C7, amended: as C7, except that an argument whose value is Undefined is
\* treated like a missing one: its parameter gets the value of the default.
C7_ArityAndBindingAmended ==
  /\ ev.op = "EnterFunc" =>
       LET k == Len(Top.args)
           n == Len(heap[Top.fn].params)
       IN ctl.err = IF k > n THEN WrongNumberOfArgsError(k, n) ELSE NoErr
  /\ ev.op = "Body" =>
       LET k == Len(Top.args)
           params == heap[Top.fn].params
       IN
       /\ k <= Len(params)
       /\ \A i \in DOMAIN params :
            PlainParam(params[i]) =>
              /\ Found(scopes[Scope].bindings, params[i].Binding.Data)
              /\ ~scopes[Scope].bindings[params[i].Binding.Data].Constant
              /\ scopes[Scope].bindings[params[i].Binding.Data].Item
                   = IF i <= k /\ Top.args[i] # Undefined THEN Top.args[i]
                     ELSE DefaultValue(params[i])

\* A body starts after an argument that was passed as Undefined gave way to the
\* parameter's default.
C7_Witness ==
  /\ ev.op = "Body"
  /\ \E i \in DOMAIN Top.args :
       /\ Top.args[i] = Undefined
       /\ PlainParam(heap[Top.fn].params[i])
       /\ scopes[Scope].bindings[heap[Top.fn].params[i].Binding.Data].Item # Undefined

\* C8: Call returns NotCallableError for a non-function, WrongNumberOfArgsError
\* for a non-variadic function given another number of arguments than it has
\* parameters, NoReturnValueError unless the function returns two values,
\* WrongReturnValueError unless these are an empty interface and an error, none
\* of them invoking the target; and it invokes every target that passes.
C8_CallValidates ==
  ev.op \in {"CallRejected", "CallPanic", "CallInvoke"} =>
    LET sig == SigOf(ev.val)
        n == ev.a
    IN
    IF ~sig.func THEN ev.op = "CallRejected" /\ ev.err = NotCallableError
    ELSE IF ~sig.variadic /\ sig.numIn # n
    THEN ev.op = "CallRejected" /\ ev.err.e = "WrongNumberOfArgsError"
    ELSE IF sig.numOut # 2 THEN ev.op = "CallRejected" /\ ev.err = NoReturnValueError
    ELSE IF sig.out0 # "interface{}" \/ sig.out1 # "error"
    THEN ev.op = "CallRejected" /\ ev.err = WrongReturnValueError
    ELSE ev.op = "CallInvoke" /\ ctl.m = "invoke" /\ ctl.fn = ev.val

\* C9: once an evaluation has returned an error, nothing more is evaluated:
\* each activation above it returns that same error in turn, changing neither
\* the heap nor what the host received, and Runtime.Run returns it to the host.
C9_FailFast ==
  [][(ctl.m = "ret" /\ ctl.err # NoErr /\ ~Panicking) =>
       \/ /\ stack # << >>
          /\ ctl'.m = "ret"
          /\ ctl'.err = ctl.err
          /\ Len(stack') <= Len(stack)
          /\ heap' = heap
          /\ resp' = resp
       \/ /\ stack = << >>
          /\ ctl'.m = "idle"
          /\ runErr' = ctl.err]_vars

\* The first argument of a call returned an error while a later argument is
\* still to be evaluated.
C9_Witness ==
  /\ ctl.m = "ret"
  /\ ctl.err = HostError
  /\ stack # << >>
  /\ Top.f = "CallExpr"
  /\ Top.phase = "Args"
  /\ Len(Top.expr.Args) > Len(Top.args) + 1

\* The bindings, in any scope, that hold the map or slice of heap cell id.
Holders(id) ==
  {sn \in (DOMAIN scopes) \X {"o", "p", "q", "a", "x"} :
     /\ Found(scopes[sn[1]].bindings, sn[2])
     /\ scopes[sn[1]].bindings[sn[2]].Item.t \in {"map", "slice"}
     /\ scopes[sn[1]].bindings[sn[2]].Item.n = id}

\* C10: after x.k = v or x[i] = v succeeded, reading the member or index
\* through any binding that holds the same Object or Array yields v.
C10_ReferenceSemantics ==
  /\ (ev.op = "AssignMember" /\ ev.err = NoErr) =>
       \A sn \in Holders(ev.a) :
         ReadMember(heap, scopes[sn[1]].bindings[sn[2]].Item, ev.name)
           = [val |-> ev.val, err |-> NoErr]
  /\ (ev.op = "AssignIndex" /\ ev.err = NoErr) =>
       \A sn \in Holders(ev.a) :
         LET item == scopes[sn[1]].bindings[sn[2]].Item IN
         ReadIndex(heap, item, IF item.t = "slice" THEN IntV(ev.b) ELSE StrV(ev.name))
           = [val |-> ev.val, err |-> NoErr]

\* A member was assigned through one of two bindings that hold the same Object
\* and that had another value under the key.
C10_Witness ==
  /\ ev.op = "AssignMember"
  /\ ev.err = NoErr
  /\ Cardinality(Holders(ev.a)) >= 2
  /\ ev.val # IntV(1)


\* A constant binding of some scope holds the map or slice v.
ConstHeld(v) ==
  /\ v.t \in {"map", "slice"}
  /\ \E s \in DOMAIN scopes : \E n \in DOMAIN scopes[s].bindings :
       scopes[s].bindings[n].Constant /\ scopes[s].bindings[n].Item = v

\* C11: constness is per binding, not deep. A member or index assignment whose
\* target is an Object or Array held by a constant binding is never refused
\* with MutatingConstantError: on an Object it succeeds, and on an Array it
\* succeeds for an index inside the array; when it succeeds the Object or Array
\* holds the assigned value under that key or index, and every binding,
\* the constant one included, is as it was (it refers to the same value).
C11_ConstIsShallow ==
  [][ev'.op \in {"AssignMember", "AssignIndex"} =>
       LET obj == IF ev'.op = "AssignMember" THEN ctl.val ELSE Top.obj IN
       ConstHeld(obj) =>
         /\ ev'.err # MutatingConstantError
         /\ scopes' = scopes
         /\ obj.t = "map" =>
              /\ ev'.err = NoErr
              /\ Found(heap'[obj.n].m, ev'.name)
              /\ heap'[obj.n].m[ev'.name] = ev'.val
         /\ (obj.t = "slice" /\ ctl.val.t = "int" /\ ctl.val.n \in 0..(Len(heap[obj.n].a) - 1)) =>
              /\ ev'.err = NoErr
              /\ heap'[obj.n].a[ctl.val.n + 1] = ev'.val
     ]_vars

\* const a = [0, 2, 4]; a[1] = 6 has made a[1] 6, and a is still the array.
C11_Witness ==
  /\ ev.op = "AssignIndex"
  /\ ev.err = NoErr
  /\ ConstHeld(AryV(ev.a))
  /\ heap[ev.a].a = <<IntV(0), IntV(6), IntV(4)>>
  /\ ev.val = IntV(6)


\* The index x[i] stands for on an Array of length n > 0: i, or for a negative
\* i the remainder of i by n, which has the sign of i.
ComputedIndex(i, n) == IF i < 0 THEN GoRem(i, n) ELSE i

\* C12: on an Array of length n, a read x[i] and a write x[i] = v with an
\* integer i succeed (the read gives the element, the write stores v there)
\* exactly when the computed index is in [0, n), and fail with
\* IndexOutOfBoundsError otherwise, so for i = n, for i > n and for every index
\* on an empty Array; an index that is no integer fails with
\* NonIntegerIndexError; a failed write leaves the Array as it was.
C12_IndexBounds ==
  (ev.op \in {"ReadIndex", "AssignIndex"} /\ ev.a.t = "slice") =>
    LET a == OpHeap[ev.a.n].a
        n == Len(a)
        i == ev.b
    IN
    IF i.t # "int" THEN ev.err = NonIntegerIndexError /\ heap = OpHeap
    ELSE IF n > 0 /\ ComputedIndex(i.n, n) \in 0..(n - 1)
    THEN /\ ev.err = NoErr
         /\ ev.op = "ReadIndex" => ev.val = a[ComputedIndex(i.n, n) + 1]
         /\ ev.op = "AssignIndex" =>
              heap[ev.a.n].a = [a EXCEPT ![ComputedIndex(i.n, n) + 1] = ev.val]
    ELSE ev.err = IndexOutOfBoundsError /\ heap = OpHeap

\* C13: a negative integer index i on an Array of length n whose remainder by
\* n is negative makes the read x[i] and the write x[i] = v fail with
\* IndexOutOfBoundsError; it is not taken as an offset from the end.
C13_NegativeIndex ==
  (/\ ev.op \in {"ReadIndex", "AssignIndex"}
   /\ ev.a.t = "slice"
   /\ ev.b.t = "int"
   /\ ev.b.n < 0
   /\ Len(OpHeap[ev.a.n].a) > 0
   /\ GoRem(ev.b.n, Len(OpHeap[ev.a.n].a)) < 0) =>
    ev.err = IndexOutOfBoundsError /\ heap = OpHeap

ValueKinds == {"nil", "int", "float64", "string", "bool"}

\* C14: x.y on an Object gives the value stored under y for every key y the
\* Object holds, and Undefined without an error for a key it does not hold;
\* x.y and x.y = v on a Number, String, Boolean or Undefined fail with
\* NotObjectError.
C14_DotAccess ==
  /\ (ev.op = "ReadMember" /\ ev.a.t = "map") =>
       /\ ev.err = NoErr
       /\ ev.val = IF Found(OpHeap[ev.a.n].m, ev.name) THEN OpHeap[ev.a.n].m[ev.name]
                   ELSE Undefined
  /\ (ev.op \in {"ReadMember", "AssignMember"} /\ ev.a.t \in ValueKinds) =>
       ev.err = NotObjectError /\ heap = OpHeap

\* C14 amended: as C14 for every key other than the names of the built-in
\* operations forEach, map and reduce.
C14_DotAccessAmended ==
  /\ (ev.op = "ReadMember" /\ ev.a.t = "map" /\ ev.name \notin Builtins) =>
       /\ ev.err = NoErr
       /\ ev.val = IF Found(OpHeap[ev.a.n].m, ev.name) THEN OpHeap[ev.a.n].m[ev.name]
                   ELSE Undefined
  /\ (ev.op \in {"ReadMember", "AssignMember"} /\ ev.a.t \in ValueKinds) =>
       ev.err = NotObjectError /\ heap = OpHeap

\* {k: 1}.z is Undefined, without an error.
C14_Witness ==
  /\ ev.op = "ReadMember"
  /\ ev.a = ObjV(1)
  /\ ev.name = "z"
  /\ ev.val = Undefined
  /\ ev.err = NoErr


\* C15: + with a String on the left gives the left String followed by the
\* rendering of the right operand, whatever kind of value that is, and never
\* fails.
C15_StringConcat ==
  (ev.op = "BinaryOp" /\ ev.name = "+" /\ ev.a.t = "string") =>
    /\ ev.err = NoErr
    /\ ev.val = StrV(ev.a.s \o Sprint(OpHeap, ev.b))

\* The pairs of operands the operators are said to take, other than two numbers.
Supported(op, x, y) ==
  CASE op = "+" -> x.t = "string" \/ (x.t = "slice" /\ y.t = "slice")
    [] op = "*" -> x.t \in {"string", "slice"} /\ y.t = "int"
    [] OTHER -> FALSE

\* C16: +, - and * on two Numbers give an integer when both are integers and a
\* float when either is a float, the sum and the difference being exact; - on
\* any other pair, and + and * on a pair they are not said to take, fail with
\* BinaryOpNotImplementedError holding both operands.
C16_NumberArithmetic ==
  (ev.op = "BinaryOp" /\ ev.name \in {"+", "-", "*"}) =>
    LET x == ev.a
        y == ev.b
    IN
    IF IsNumber(x) /\ IsNumber(y)
    THEN /\ ev.err = NoErr
         /\ ev.val.t = IF x.t = "int" /\ y.t = "int" THEN "int" ELSE "float64"
         /\ ev.name = "+" => Tenths(ev.val) = Tenths(x) + Tenths(y)
         /\ ev.name = "-" => Tenths(ev.val) = Tenths(x) - Tenths(y)
         /\ (ev.name = "*" /\ ev.val.t = "int") => ev.val.n = x.n * y.n
    ELSE ~Supported(ev.name, x, y) =>
           /\ ev.err.e = "BinaryOpNotImplementedError"
           /\ ev.err.got = x
           /\ ev.err.want = y
           /\ ev.val = Undefined

\* 1.0 + 2 is the float 3.0.
C16_Witness ==
  /\ ev.op = "BinaryOp"
  /\ ev.name = "+"
  /\ ev.a = FloatV(10)
  /\ ev.b = IntV(2)
  /\ ev.val = FloatV(30)
  /\ ev.err = NoErr

\* C17: a / b on two Numbers gives the quotient, an integer truncated toward
\* zero for two integers and a float otherwise (here for a divisor other than
\* 0); with an operand that is no Number it fails with
\* BinaryOpNotImplementedError.
C17_Division ==
  (ev.op = "BinaryOp" /\ ev.name = "/") =>
    IF IsNumber(ev.a) /\ IsNumber(ev.b)
    THEN ev.b.n # 0 =>
           /\ ev.err = NoErr
           /\ ev.val = Div(OpHeap, ev.a, ev.b).val
    ELSE ev.err.e = "BinaryOpNotImplementedError"

\* C18: * with a String or an Array on the left and an integer n on the right
\* gives, for every n, a new String or Array that is the left operand n times
\* (empty for n <= 0), never a crash, and leaves the left operand as it was.
C18_Repeat ==
  (ev.op = "BinaryOp" /\ ev.name = "*" /\ ev.a.t \in {"string", "slice"} /\ ev.b.t = "int") =>
    /\ ev.err = NoErr
    /\ ev.a.t = "string" => ev.val = StrV(Repeat(ev.a.s, ev.b.n))
    /\ ev.a.t = "slice" =>
         /\ ev.val.t = "slice"
         /\ ev.val.n \notin DOMAIN OpHeap
         /\ heap[ev.val.n].a = RepeatSeq(OpHeap[ev.a.n].a, ev.b.n)
         /\ SubSeq(heap, 1, Len(OpHeap)) = OpHeap

\* C19: === on two Objects, two Arrays or two Functions is true exactly when
\* both are the same value: false for two values built separately, whatever
\* their contents, true for a value and itself.
C19_StrictEqualityIdentity ==
  (/\ ev.op = "BinaryOp"
   /\ ev.name = "==="
   /\ ev.a.t = ev.b.t
   /\ ev.a.t \in {"map", "slice", "jsfunc"}) =>
    /\ ev.err = NoErr
    /\ ev.val = BoolV(ev.a.n = ev.b.n)

\* C20: === on Undefined, integers, floats, Strings and Booleans returns a
\* boolean and never fails: false for two kinds, for two values of one kind
\* whether they are equal, so true for Undefined and Undefined.
C20_StrictEqualityValues ==
  (/\ ev.op = "BinaryOp"
   /\ ev.name = "==="
   /\ ev.a.t \in ValueKinds
   /\ ev.b.t \in ValueKinds) =>
    /\ ev.err = NoErr
    /\ ev.val = BoolV(ev.a = ev.b)

\* The number of arguments forEach, map or reduce on the receiver recv gives its callback.
CallbackArgs(name, recv) == Len(IteratorArgs(name, recv, "", Undefined, Undefined))

\* C21: forEach, map and reduce accept as their callback every callable that
\* Call accepts with the arguments they give it, an interpreted function or a
\* function of the host with a valid signature and matching arity.
C21_CallbackBridge ==
  (ev.op = "BuiltinEnter" /\ ev.a \in DOMAIN heap) =>
    LET sig == SigOf(ev.val)
        n == CallbackArgs(ev.name, heap[ev.a].t)
    IN (CallCheck(sig, n) = NoErr /\ ~ReflectCallPanics(sig, n)) => ev.err = NoErr

\* A two-element Array.
IsPair(hp, v) == v.t = "slice" /\ Len(hp[v.n].a) = 2

\* What the callback returned to a map over an Object, call by call: the
\* rendering of each pair's first value and its second value.
ReturnedPairs(hp, results) ==
  [i \in DOMAIN results |-> <<Sprint(hp, hp[results[i].n].a[1]), hp[results[i].n].a[2]>>]

\* One step of map. replaced says whether a pair whose rendered key a later
\* pair repeats is left out of what the new Object has to hold.
MapStep(replaced) ==
  /\ (ev'.op = "Iterate" /\ Top.name = "map") =>
       LET cell == heap[Top.recv] IN
       /\ ctl'.fn = Top.iterator
       /\ cell.t = "map" =>
            \E key \in DOMAIN cell.m \ Top.seen : ctl'.args = <<StrV(key), cell.m[key]>>
       /\ cell.t = "slice" => ctl'.args = <<cell.a[Len(Top.results) + 1]>>
  /\ (ev'.op = "Iterated" /\ Top.name = "map" /\ heap[Top.recv].t = "map" /\ ctl.err = NoErr) =>
       (~IsPair(heap, ctl.val) => ctl'.err = NotPairError)
  /\ (ev'.op = "BuiltinReturn" /\ Top.name = "map") =>
       /\ heap'[Top.recv] = heap[Top.recv]
       /\ ctl.err # NoErr => (ctl'.err = ctl.err /\ ctl'.val = Undefined)
       /\ ctl.err = NoErr =>
            /\ ctl'.err = NoErr
            /\ ctl'.val.t = heap[Top.recv].t
            /\ ctl'.val.n \notin DOMAIN heap
            /\ IF heap[Top.recv].t = "map"
               THEN LET res == heap'[ctl'.val.n].m
                        pairs == ReturnedPairs(heap, Top.results)
                    IN
                    /\ Len(pairs) = Cardinality(DOMAIN heap[Top.recv].m)
                    /\ \A i \in DOMAIN pairs :
                         (replaced /\ \E j \in DOMAIN pairs : j > i /\ pairs[j][1] = pairs[i][1])
                         \/ (Found(res, pairs[i][1]) /\ res[pairs[i][1]] = pairs[i][2])
                    /\ \A key \in DOMAIN res : \E i \in DOMAIN pairs : pairs[i][1] = key
               ELSE LET res == heap'[ctl'.val.n].a IN
                    /\ Len(res) = Len(heap[Top.recv].a)
                    /\ res = Top.results

\* C22: map on an Object calls the callback once per entry with (key, value),
\* fails with NotPairError when a call returns anything but a two-element
\* Array, and otherwise returns a new Object that holds, for each returned
\* pair [k, v], v under the rendering of k; map on an Array returns a new Array
\* of the callback's results in order; the receiver is left as it was.
C22_Map == [][MapStep(FALSE)]_vars

\* C22 amended: of the returned pairs whose keys have the same rendering, the
\* new Object holds the last one returned.
C22_MapAmended == [][MapStep(TRUE)]_vars

\* {x: 1, [2]: 2}.map((k, v) => [v, k]) has returned {1: "x", 2: "2"}.
C22_Witness ==
  /\ ev.op = "BuiltinReturn"
  /\ ev.name = "map"
  /\ ev.err = NoErr
  /\ heap[ev.a] = MapCell([k \in {"x", "2"} |-> IF k = "x" THEN IntV(1) ELSE IntV(2)])
  /\ heap[ev.val.n] = MapCell([k \in {"1", "2"} |-> IF k = "1" THEN StrV("x") ELSE StrV("2")])

\* The accumulator of a reduce: its initial value, then what the last call returned.
Accumulator(fr, initial) ==
  IF fr.results = << >> THEN initial ELSE fr.results[Len(fr.results)]

\* One step of reduce.
ReduceStep ==
  /\ (ev'.op = "BuiltinEnter" /\ ev'.name = "reduce" /\ ev'.err = NoErr) =>
       Accumulator(Head(stack'), ctl.args[2]) = ctl.args[2]
  /\ (ev'.op = "Iterate" /\ Top.name = "reduce") =>
       LET cell == heap[Top.recv]
           acc == Accumulator(Top, Top.sum)
       IN
       /\ ctl'.fn = Top.iterator
       /\ cell.t = "map" =>
            \E key \in DOMAIN cell.m \ Top.seen : ctl'.args = <<StrV(key), cell.m[key], acc>>
       /\ cell.t = "slice" => ctl'.args = <<cell.a[Len(Top.results) + 1], acc>>
  /\ (Returned("Builtin") /\ Top.name = "reduce" /\ Top.phase = "Loop" /\ ctl.err # NoErr) =>
       /\ ev'.op = "BuiltinReturn"
       /\ ctl'.err = ctl.err
  /\ (ev'.op = "BuiltinReturn" /\ Top.name = "reduce" /\ ctl.err = NoErr) =>
       LET cell == heap[Top.recv] IN
       /\ ctl'.err = NoErr
       /\ ctl'.val = Accumulator(Top, Top.sum)
       /\ Len(Top.results) = IF cell.t = "map" THEN Cardinality(DOMAIN cell.m) ELSE Len(cell.a)

\* C23: reduce(fn, initial) starts its accumulator at initial, gives each call
\* the entry and the accumulator (key, value, acc for an Object; element, acc
\* for an Array, in index order), takes the call's result as the next
\* accumulator and returns the last; on an empty collection it returns initial
\* without a call; the first error of a call ends it and is returned.
C23_Reduce == [][ReduceStep]_vars

\* [1, 2].reduce((e, s) => s + e, "k") has returned "k12".
C23_Witness ==
  /\ ev.op = "BuiltinReturn"
  /\ ev.name = "reduce"
  /\ ev.err = NoErr
  /\ heap[ev.a] = SliceCell(<<IntV(1), IntV(2)>>)
  /\ ev.val = StrV("k12")

\* One step of a block that holds a return.
ReturnStep ==
  /\ (/\ Returned("Block")
      /\ ~Top.open
      /\ ctl.err = NoErr
      /\ Top.stmt.k = "ReturnStmt"
      /\ Top.stmt # Top.List[Len(Top.List)]) =>
       /\ ev'.op = "NextStmt"
       /\ \E j \in 2..Len(Top.List) : Top.List[j - 1] = Top.stmt /\ ctl' = EvalC(Top.List[j])
  /\ (ev'.op = "ExitBlock" /\ ~Top.open /\ ctl.err = NoErr /\ Top.List # << >>) =>
       /\ Top.stmt = Top.List[Len(Top.List)]
       /\ ctl'.val = ctl.val
       /\ ctl'.err = NoErr
  /\ (ev'.op = "ExitFunc" /\ ctl.err = NoErr) =>
       /\ ctl'.val = ctl.val
       /\ ctl'.err = NoErr

\* C24: a return does not end its block: the statements after it in the block
\* are evaluated, and the block's result, which is the result of a function
\* with that body, is the value of the block's last statement.
C24_ReturnContinues == [][ReturnStep]_vars

\* (() => { return 1; out(2); 3; })() has returned 3 after out(2).
C24_Witness ==
  /\ ev.op = "ExitFunc"
  /\ ev.err = NoErr
  /\ heap[ev.val.n].body.List[1] = ReturnStmt(DecimalInt(1))
  /\ ctl.val = IntV(3)
  /\ resp = IntV(2)

\* C25: declaring a name the active scope already binds (by let, const, a
\* parameter or a function declaration, constant or not) fails with no error
\* and replaces the binding: the scope then holds the declared value under the
\* name, and a lookup returns it.
C25_Redeclare ==
  [][(/\ ev'.op \in {"Bind", "FuncDecl"}
      /\ ev'.err = NoErr
      /\ Found(scopes[Scope].bindings, ev'.name)) =>
       /\ ctl'.err = NoErr
       /\ Found(scopes'[Scope].bindings, ev'.name)
       /\ scopes'[Scope].bindings[ev'.name].Item = ev'.val
       /\ Lookup(scopes', Runtimes'[cur], MGlobals', ev'.name).item = ev'.val]_vars

\* The step gives a scope a binding under a name it did not bind.
CreatesBinding ==
  \E s \in DOMAIN scopes \cap DOMAIN scopes' :
    DOMAIN scopes'[s].bindings \ DOMAIN scopes[s].bindings # {}

\* C26: every call of Eval calls ThrottleEvaluation before anything else, and
\* every step that creates a binding in a scope (a variable declaration, a
\* parameter, a loop variable, a function declaration, an assignment to a name
\* the active scope does not bind) calls ThrottleAllocation before it.
C26_Hooks ==
  [][/\ ctl.m = "eval" => "ThrottleEvaluation" \in ev'.hooks
     /\ CreatesBinding => "ThrottleAllocation" \in ev'.hooks]_vars

\* C27: a name in the Engine's Globals resolves from every Runtime of the
\* Engine, spawned before or after; a name only in another Runtime's Globals
\* does not resolve; the Runtime's own Globals win over the Engine's; and
\* NewRuntime appends a Runtime with empty Globals and a root scope of its own.
C27_TwoTierGlobals ==
  [][/\ ev'.op = "HostLookup" =>
          LET own == Runtimes[ev'.a].Globals
              name == ev'.name
          IN
          /\ Found(own, name) => (ev'.err = NoErr /\ ev'.val = own[name])
          /\ (~Found(own, name) /\ Found(MGlobals, name)) =>
               (ev'.err = NoErr /\ ev'.val = MGlobals[name])
          /\ (~Found(own, name) /\ ~Found(MGlobals, name)) =>
               (ev'.err = NotDeclaredError /\ ev'.val = Undefined)
     /\ ev'.op = "NewRuntime" =>
          LET r == Runtimes'[Len(Runtimes')] IN
          /\ Runtimes' = Append(Runtimes, r)
          /\ MGlobals' = MGlobals
          /\ r.Globals = EmptyMap
          /\ r.Scope \notin DOMAIN scopes
          /\ scopes'[r.Scope] = New(0)
     /\ ev'.op = "SetRuntimeGlobal" =>
          /\ MGlobals' = MGlobals
          /\ \A q \in DOMAIN Runtimes \ {ev'.a} : Runtimes'[q] = Runtimes[q]
     /\ ev'.op = "SetEngineGlobal" => Runtimes' = Runtimes]_vars

\* The second Runtime resolves g to the Engine's value while the first
\* Runtime's Globals hold another value for g.
C27_Witness ==
  /\ ev.op = "HostLookup"
  /\ ev.name = "g"
  /\ ev.a = 2
  /\ Found(Runtimes[1].Globals, "g")
  /\ ~Found(Runtimes[2].Globals, "g")
  /\ Found(MGlobals, "g")
  /\ Runtimes[1].Globals["g"] # MGlobals["g"]
  /\ ev.val = MGlobals["g"]

\* One step of a for-in loop.
ForInStep ==
  /\ (Returned("ForIn") /\ Top.phase = "Value" /\ ctl.err = NoErr
        /\ (ctl.val.t \notin {"map", "slice"} \/ Len(Top.stmt.Init.List) > 1)) =>
       /\ ctl'.err = NotImplementedError
       /\ stack' = Tail(stack)
       /\ scopes' = scopes
  /\ ev'.op = "EnterIteration" =>
       LET cell == heap[Top.coll.n] IN
       /\ Scope = Top.saved
       /\ Scope' \notin DOMAIN scopes
       /\ scopes'[Scope'] = New(Top.saved)
       /\ ctl'.m = "bind"
       /\ ctl'.el = Top.stmt.Init.List[1]
       /\ cell.t = "slice" =>
            \E i \in DOMAIN cell.a :
              /\ i = Top.i + 1
              /\ ctl'.value = cell.a[i]
       /\ cell.t = "map" =>
            \E key \in DOMAIN cell.m \ Top.seen : ctl'.value = StrV(key)
  /\ (Returned("ForIn") /\ Top.phase = "Bind" /\ ctl.err = NoErr) =>
       /\ ev'.op = "IterBody"
       /\ ctl' = EvalC(Top.stmt.Body)
       /\ DOMAIN scopes[Scope].bindings = {BoundName(Top.stmt.Init.List[1])}
  /\ ev'.op = "ExitIteration" => Scope' = Top.saved
  /\ (ev'.op = "ExitForIn" /\ ctl.err = NoErr) =>
       LET cell == heap[Top.coll.n] IN
       /\ Scope' = Top.saved
       /\ cell.t = "slice" => Top.i = Len(cell.a)
       /\ cell.t = "map" => (Top.seen = DOMAIN cell.m /\ Top.i = Cardinality(DOMAIN cell.m))

\* C28: a for-in loop over an Array runs its body once per element, in index
\* order, the loop variable bound to the element; over an Object once per key,
\* the loop variable bound to the key; every iteration binds the variable in a
\* new scope under the scope the loop runs in, so nothing an iteration bound
\* is there in the next; a value that is no Object or Array, or a declaration
\* of more than one variable, fails with NotImplementedError before any
\* iteration.
C28_ForIn == [][ForInStep]_vars

\* The second iteration over [1, 2] has bound e to 2 in a scope of its own.
C28_Witness ==
  /\ ev.op = "Bind"
  /\ ev.name = "e"
  /\ ev.val = IntV(2)
  /\ stack # << >>
  /\ Top.f = "ForIn"
  /\ Top.i = 2
  /\ scopes[Scope].Parent = Top.saved
  /\ DOMAIN scopes[Scope].bindings = {"e"}

\* C29: Run evaluates the program as a block in a child of the Runtime's root
\* scope: when the block returns, with or without an error, the root scope is
\* active again and holds no binding, so between two programs a name the
\* program declared resolves, by Lookup or by Runtime.Call, only when a
\* Globals table holds it, and fails with NotDeclaredError otherwise.
C29_RunScope ==
  /\ (ev.op = "ExitBlock" /\ stack = << >>) =>
       /\ Scope = ev.a
       /\ scopes[Scope] = New(0)
  /\ ctl.m = "idle" => \A r \in DOMAIN Runtimes : scopes[Runtimes[r].Scope] = New(0)
  /\ ev.op \in {"HostLookup", "HostCall"} =>
       IF Found(Runtimes[ev.a].Globals, ev.name) \/ Found(MGlobals, ev.name)
       THEN ev.err = NoErr
       ELSE ev.err = NotDeclaredError

\* The program that declared f is about to return: the root scope is active
\* and empty, and f, bound in the program's scope, does not resolve.
C29_Witness ==
  /\ ev.op = "ExitBlock"
  /\ ev.err = NoErr
  /\ stack = << >>
  /\ ev.b \in DOMAIN scopes
  /\ Found(scopes[ev.b].bindings, "f")
  /\ scopes[Scope] = New(0)
  /\ Lookup(scopes, Runtimes[cur], MGlobals, "f").err = NotDeclaredError

\* The statements Eval gives no value: return nil, e.EvalXxx(v).
NoValueKinds == {"IfStmt", "ForInStmt", "VarDecl", "FuncDecl"}

\* One step that ends a statement without a value, or a block or function
\* body whose last statement is one.
NoValueStep ==
  /\ (/\ ctl.m = "ret"
      /\ stack # << >>
      /\ Top.f \in {"If", "ForIn", "VarDecl"}
      /\ stack' = Tail(stack)
      /\ ctl'.m = "ret") => ctl'.val = Undefined
  /\ (ctl.m = "eval" /\ ctl.node.k \in NoValueKinds /\ ctl'.m = "ret") => ctl'.val = Undefined
  /\ (/\ ev'.op = "ExitBlock"
      /\ ~Top.open
      /\ Top.List # << >>
      /\ Top.List[Len(Top.List)].k \in NoValueKinds) => ctl'.val = Undefined
  /\ (/\ ev'.op = "ExitFunc"
      /\ heap[Top.fn].body.List # << >>
      /\ heap[Top.fn].body.List[Len(heap[Top.fn].body.List)].k \in NoValueKinds) =>
       ctl'.val = Undefined

\* C30: an if statement, a for-in statement, a variable declaration and a
\* function declaration have the value Undefined whatever they hold, so a
\* function whose body ends with one returns Undefined, also when the branch
\* or loop body it ran ends with a return.
C30_NoValueStatements == [][NoValueStep]_vars

\* (() => { if (1) { return 5; } })() has returned Undefined.
C30_Witness ==
  /\ ev.op = "ExitFunc"
  /\ ev.err = NoErr
  /\ heap[ev.val.n].body.List =
       <<IfStmt(DecimalInt(1), BlockStmt(<<ReturnStmt(DecimalInt(5))>>), NilNode)>>
  /\ ctl.val = Undefined

====
